---- MODULE Spec2Model ----
(***************************************************************************)
(* A model of mycoria/crop: the sequence checkers (secret.go), the         *)
(* hash-based MAC (mac.go) and the context-hash challenge (challenge.go).  *)
(*                                                                         *)
(* Byte strings are sequences of "elements".  An element is a tuple of     *)
(* integers: a plain byte b is <<b>>, and byte i of a digest is the term   *)
(* <<key, i>> \o Flatten(message), so that digests are equal exactly when  *)
(* key and message are equal (the hash functions are external libraries    *)
(* and are taken to be collision free).                                    *)
(***************************************************************************)
EXTENDS Integers, Sequences, FiniteSets, TLC

VARIABLES
    chk,      \* the sequence checker under test (Spec, SpecOut)
    accepted, \* history: the sequence numbers chk has accepted so far
    last,     \* history: the last checker call, its argument, result and pre-state
    submitted, \* SpecWindow, SpecPerm history: the numbers submitted to chk so far
    got,      \* SpecOut: per caller, the values NextOutSequence returned to it
    inCall,   \* SpecOut: per caller, the value of a call that has not returned yet (0: none)
    hbm,      \* SpecMAC: the two HashBasedMAC handlers, "X" and "Y"
    wire,     \* SpecMAC: the tags Sign has returned, with signer, data and sequence number
    verified, \* SpecMAC history: per handler, the tags its Verify has accepted
    lastMac,  \* SpecMAC history: the last Sign or Verify call
    insts,    \* SpecChallenge: the Challenge instances constructed so far
    built,    \* SpecChallenge history: the instances as NewChallenge returned them
    resps,    \* SpecChallenge: the responses MakeResponse has returned
    lastCh,   \* SpecChallenge history: the last Challenge call
    hasher,   \* SpecHasher: the value hasher under test
    added,    \* SpecHasher history: the fields added to hasher so far
    lastSum,  \* SpecHasher: what Sum returned (<<>>: not called yet)
    lastNew,  \* SpecNew history: the last constructor call, its arguments and what it returned
    kex,      \* SpecKeys: the X25519KeyExchange instance under test
    pending,  \* SpecKeys: per caller, its MakeKeys call that has not returned yet
    returned, \* SpecKeys history: a MakeKeys call on kex has returned a KeyMaker
    keyMaker, \* SpecKeys: the KeyMaker MakeKeys returned last (<<>>: none yet)
    lastKex,  \* SpecKeys history: the last call that returned
    mem,      \* SpecKeyPair: the heap, the buffers that hold key bytes
    kps,      \* SpecKeyPair: per slot, the Ed25519KeyPair in it (<<>>: none)
    origin,   \* SpecKeyPair history: per slot, the call that made its pair what it is
    exported, \* SpecKeyPair: the StoredKey Export returned last (<<>>: none)
    signed,   \* SpecKeyPair: the signature Sign returned last, with its data (<<>>: none)
    lastKp,   \* SpecKeyPair history: the last key pair call
    signLock,   \* SpecLock: the goroutine that holds signLock of handler "X" (0: free)
    verifyLock, \* SpecLock: the goroutine that holds verifyLock of handler "X" (0: free)
    frames    \* SpecLock: per goroutine, its Sign or Verify call on handler "X"

checkerVars == <<chk, accepted, last, submitted, got, inCall>>
macVars == <<hbm, wire, verified, lastMac>>
chalVars == <<insts, built, resps, lastCh>>
hasherVars == <<hasher, added, lastSum>>
coreVars == <<checkerVars, macVars, chalVars>>
newVars == <<lastNew>>
keysVars == <<kex, pending, returned, keyMaker, lastKex>>
kpVars == <<mem, kps, origin, exported, signed, lastKp>>
lockVars == <<signLock, verifyLock, frames>>
extVars == <<hasherVars, newVars, keysVars, kpVars, lockVars>>
notHasherVars == <<coreVars, newVars, keysVars, kpVars, lockVars>>
notNewVars == <<coreVars, hasherVars, keysVars, kpVars, lockVars>>
notKeysVars == <<coreVars, hasherVars, newVars, kpVars, lockVars>>
notKpVars == <<coreVars, hasherVars, newVars, keysVars, lockVars>>
notLockVars == <<checkerVars, chalVars, hasherVars, newVars, keysVars, kpVars>>
vars == <<coreVars, extVars>>

-----------------------------------------------------------------------------
(* Bounds of the model. *)

\* CheckInSequence is called with 0..MaxLow and with WindowSize+1..WindowSize+MaxLow.
MaxLow == 3
\* NextOutSequence is called at most MaxOut times on the checker of Spec.
MaxOut == 2
\* Each concurrent caller of SpecOut makes at most MaxCalls calls.
MaxCalls == 2
\* The two handlers of SpecMAC make at most MaxSign Sign calls together.
MaxSign == 2
\* The digest size of the hash in use (hash.Hash.Size()).
DigestSize == 2
\* SpecChallenge makes at most MaxResponses responses.
MaxResponses == 1

(* Program constants. *)

\* inBitMap is a uint64.
BitMapWidth == 64
\* "if diff > 64": the width of the view.
WindowSize == 64

-----------------------------------------------------------------------------
(* Sequence checkers (secret.go).  A checker is a record; the strict        *)
(* variant uses inSeq, the loose variant inBitMap and inHighest.  The       *)
(* uint64 bitmap is the set of the positions of its 1 bits.                 *)

Max(S) == CHOOSE x \in S : \A y \in S : y <= x

fullBitMap == 0 .. (BitMapWidth - 1)

\* x << d on a uint64: bits shifted past position 63 are lost, and a shift
\* count of 64 or more gives 0.
ShiftLeftRotate(bm, d) == {(b + d) % BitMapWidth : b \in bm}
ShiftLeftMaskedCount(bm, d) == {b + (d % BitMapWidth) : b \in bm} \cap (0 .. (BitMapWidth - 1))
ShiftLeft(bm, d) == {b + d : b \in bm} \cap (0 .. (BitMapWidth - 1))

NewStrictSequenceChecker ==
    [kind |-> "strict", inSeq |-> 0, inBitMap |-> {}, inHighest |-> 0, outSeq |-> 0]

NewLooseSequenceChecker ==
    [kind |-> "loose", inSeq |-> 0, inBitMap |-> fullBitMap, inHighest |-> 0, outSeq |-> 0]

\* atomic.Uint64.Add: the new value is stored and returned in one step.
AtomicAdd(c, delta) == [c |-> [c EXCEPT !.outSeq = c.outSeq + delta], ret |-> c.outSeq + delta]

NextOutSequenceSharedCounter(c) ==
    [c |-> [c EXCEPT !.outSeq = c.outSeq + 1, !.inSeq = c.inSeq + 1,
                     !.inHighest = c.inHighest + 1],
     ret |-> c.outSeq + 1]
NextOutSequenceLoadThenStore(c) == [c |-> c, ret |-> c.outSeq + 1]
NextOutSequence(c) == AtomicAdd(c, 1)

StrictCheckInSequenceStoresRejected(c, n) ==
    [ok |-> n > c.inSeq, c |-> [c EXCEPT !.inSeq = n]]
StrictCheckInSequenceAcceptsEqual(c, n) ==
    IF n < c.inSeq
    THEN [ok |-> FALSE, c |-> c]
    ELSE [ok |-> TRUE, c |-> [c EXCEPT !.inSeq = n]]
StrictCheckInSequence(c, n) ==
    IF n <= c.inSeq
    THEN [ok |-> FALSE, c |-> c]
    ELSE [ok |-> TRUE, c |-> [c EXCEPT !.inSeq = n]]

LooseCheckInSequenceWindowOffByOne(c, seqNum) ==
    IF seqNum = c.inHighest
    THEN [ok |-> FALSE, c |-> c]
    ELSE IF seqNum > c.inHighest
    THEN [ok |-> TRUE,
          c  |-> [c EXCEPT !.inBitMap = ShiftLeft(c.inBitMap, seqNum - c.inHighest),
                           !.inHighest = seqNum]]
    ELSE IF c.inHighest - seqNum >= WindowSize \/ (c.inHighest - seqNum - 1) \in c.inBitMap
    THEN [ok |-> FALSE, c |-> c]
    ELSE [ok |-> TRUE, c |-> [c EXCEPT !.inBitMap = c.inBitMap \cup {c.inHighest - seqNum - 1}]]
LooseCheckInSequenceNoEqualCase(c, seqNum) ==
    IF seqNum > c.inHighest
    THEN [ok |-> TRUE,
          c  |-> [c EXCEPT !.inBitMap = ShiftLeft(c.inBitMap, seqNum - c.inHighest),
                           !.inHighest = seqNum]]
    ELSE IF c.inHighest - seqNum > WindowSize \/ (c.inHighest - seqNum - 1) \in c.inBitMap
    THEN [ok |-> FALSE, c |-> c]
    ELSE [ok |-> TRUE, c |-> c]
LooseCheckInSequence(c, seqNum) ==
    IF seqNum = c.inHighest
    THEN [ok |-> FALSE, c |-> c]
    ELSE IF seqNum > c.inHighest
    THEN LET diff == seqNum - c.inHighest
         IN  [ok |-> TRUE,
              c  |-> [c EXCEPT !.inBitMap = ShiftLeft(c.inBitMap, diff),
                               !.inHighest = seqNum]]
    ELSE LET diff == c.inHighest - seqNum
             bitMapPosition == diff - 1
         IN  IF diff > WindowSize
             THEN [ok |-> FALSE, c |-> c]
             ELSE IF bitMapPosition \in c.inBitMap
             THEN [ok |-> FALSE, c |-> c]
             ELSE [ok |-> TRUE,
                   c  |-> [c EXCEPT !.inBitMap = c.inBitMap \cup {bitMapPosition}]]

\* The SequenceChecker interface: the call goes to the variant's method.
CheckInSequence(c, n) ==
    IF c.kind = "strict" THEN StrictCheckInSequence(c, n) ELSE LooseCheckInSequence(c, n)

-----------------------------------------------------------------------------
(* Byte strings and the external primitives: encoding/binary's varint,      *)
(* crypto/subtle's comparison and a keyed hash.Hash.                        *)

Byte(b) == <<b>>
Bytes(s) == [i \in 1 .. Len(s) |-> <<s[i]>>]
Repeat(e, n) == [i \in 1 .. n |-> e]

\* The elements lo..hi of msg as one tuple of integers, each element preceded
\* by its length.
RECURSIVE FlattenRange(_, _, _)
FlattenRange(msg, lo, hi) ==
    IF lo > hi THEN <<>>
    ELSE IF lo = hi THEN <<Len(msg[lo])>> \o msg[lo]
    ELSE LET mid == (lo + hi) \div 2
         IN  FlattenRange(msg, lo, mid) \o FlattenRange(msg, mid + 1, hi)

Flatten(msg) == FlattenRange(msg, 1, Len(msg))

\* binary.MaxVarintLen64
MaxVarintLen64 == 10

RECURSIVE Pow128(_)
Pow128(k) == IF k = 0 THEN 1 ELSE 128 * Pow128(k - 1)

\* binary.PutUvarint: 7 bits per byte, least significant group first, the top
\* bit set on every byte but the last.
RECURSIVE PutUvarint(_)
PutUvarint(x) == IF x >= 128 THEN <<(x % 128) + 128>> \o PutUvarint(x \div 128) ELSE <<x>>

\* binary.Uvarint from byte i (counted from 0) on, x being the value read so far:
\* size 0 when the buffer ends inside the number, negative on overflow.
RECURSIVE UvarintFrom(_, _, _)
UvarintFrom(buf, i, x) ==
    IF i >= Len(buf) THEN [n |-> 0, size |-> 0]
    ELSE IF i = MaxVarintLen64 THEN [n |-> 0, size |-> -(i + 1)]
    ELSE LET b == buf[i + 1][1]
         IN  IF b < 128
             THEN IF i = MaxVarintLen64 - 1 /\ b > 1
                  THEN [n |-> 0, size |-> -(i + 1)]
                  ELSE [n |-> IF b = 0 THEN x ELSE x + b * Pow128(i), size |-> i + 1]
             ELSE UvarintFrom(buf, i + 1, IF b = 128 THEN x ELSE x + (b - 128) * Pow128(i))

Uvarint(buf) == UvarintFrom(buf, 0, 0)

\* subtle.ConstantTimeCompare: 1 when the two slices have equal contents.
ConstantTimeCompare(x, y) == IF x = y THEN 1 ELSE 0

\* A keyed hash.Hash: its key and what has been written since the last Reset.
NewKeyed(key) == [key |-> key, buf |-> <<>>]
Write(hh, p) == [hh EXCEPT !.buf = @ \o p]
Size(hh) == DigestSize
Sum(hh) == LET written == Flatten(hh.buf) IN [i \in 1 .. Size(hh) |-> <<hh.key, i>> \o written]
Reset(hh) == [hh EXCEPT !.buf = <<>>]

-----------------------------------------------------------------------------
(* The hash-based MAC (mac.go). *)

macMinSaltSize == 8
macSaltSize == 16

ErrNil == [nil |-> TRUE, wraps |-> "", msg |-> ""]
ErrAuthCodeInvalid == [nil |-> FALSE, wraps |-> "ErrAuthCodeInvalid", msg |-> ""]
\* fmt.Errorf("%w: ...", err)
Errorf(err, msg) == [nil |-> FALSE, wraps |-> err.wraps, msg |-> msg]
ErrorsIs(err, target) == ~err.nil /\ err.wraps = target.wraps

NewSequenceChecker(kind) ==
    IF kind = "strict" THEN NewStrictSequenceChecker ELSE NewLooseSequenceChecker

\* MsgAuthCodeType.New for HMAC-BLAKE3.
NewAuthCodeHandlerOneKey(signKey, verifyKey, seqChecker) ==
    [seqChecker |-> seqChecker, signer |-> NewKeyed(signKey), verifier |-> NewKeyed(signKey)]
NewAuthCodeHandler(signKey, verifyKey, seqChecker) ==
    [seqChecker |-> seqChecker, signer |-> NewKeyed(signKey), verifier |-> NewKeyed(verifyKey)]

HbmSignDigestOfData(h, data, salt) ==
    LET r == NextOutSequence(h.seqChecker)
        written == Write(h.signer, data)
    IN  [h   |-> [h EXCEPT !.seqChecker = r.c, !.signer = Reset(written)],
         seq |-> r.ret,
         mac |-> Bytes(PutUvarint(r.ret)) \o salt \o Sum(written)]
\* HashBasedMAC.Sign; salt is what rand.Read put into the salt bytes.
HbmSign(h, data, salt) ==
    LET r == NextOutSequence(h.seqChecker)
        sequence == r.ret
        prefix == Bytes(PutUvarint(sequence)) \o salt
        written == Write(Write(h.signer, prefix), data)
    IN  [h   |-> [h EXCEPT !.seqChecker = r.c, !.signer = Reset(written)],
         seq |-> sequence,
         mac |-> prefix \o Sum(written)]

\* HashBasedMAC.Verify.  stage tells where the call returned, and checked
\* whether it called CheckInSequence.
HbmVerifySequenceFirst(h, data, mac) ==
    LET u == Uvarint(mac)
        saltSize == Len(mac) - u.size - Size(h.verifier)
        written == Write(Write(h.verifier, SubSeq(mac, 1, u.size + saltSize)), data)
        r == CheckInSequence(h.seqChecker, u.n)
    IN  IF u.size <= 0
        THEN [h |-> [h EXCEPT !.verifier = Reset(@)], checked |-> FALSE, stage |-> "varint",
              err |-> Errorf(ErrAuthCodeInvalid, "too short")]
        ELSE IF saltSize < macMinSaltSize
        THEN [h |-> [h EXCEPT !.verifier = Reset(@)], checked |-> FALSE, stage |-> "salt",
              err |-> Errorf(ErrAuthCodeInvalid, "too short")]
        ELSE IF ~r.ok
        THEN [h |-> [h EXCEPT !.verifier = Reset(@), !.seqChecker = r.c],
              checked |-> TRUE, stage |-> "sequence",
              err |-> Errorf(ErrAuthCodeInvalid, "sequence violation")]
        ELSE IF ConstantTimeCompare(SubSeq(mac, u.size + saltSize + 1, Len(mac)), Sum(written)) # 1
        THEN [h |-> [h EXCEPT !.verifier = Reset(written), !.seqChecker = r.c],
              checked |-> TRUE, stage |-> "checksum", err |-> ErrAuthCodeInvalid]
        ELSE [h |-> [h EXCEPT !.verifier = Reset(written), !.seqChecker = r.c],
              checked |-> TRUE, stage |-> "ok", err |-> ErrNil]
HbmVerifySaltOffByOne(h, data, mac) ==
    LET u == Uvarint(mac)
        seqNum == u.n
        seqSize == u.size
        saltSize == Len(mac) - seqSize - Size(h.verifier)
        written == Write(Write(h.verifier, SubSeq(mac, 1, seqSize + saltSize)), data)
        compareChecksum == Sum(written)
        r == CheckInSequence(h.seqChecker, seqNum)
    IN  IF seqSize <= 0
        THEN [h |-> [h EXCEPT !.verifier = Reset(@)], checked |-> FALSE, stage |-> "varint",
              err |-> Errorf(ErrAuthCodeInvalid, "too short")]
        ELSE IF saltSize <= macMinSaltSize
        THEN [h |-> [h EXCEPT !.verifier = Reset(@)], checked |-> FALSE, stage |-> "salt",
              err |-> Errorf(ErrAuthCodeInvalid, "too short")]
        ELSE IF ConstantTimeCompare(SubSeq(mac, seqSize + saltSize + 1, Len(mac)),
                                    compareChecksum) # 1
        THEN [h |-> [h EXCEPT !.verifier = Reset(written)], checked |-> FALSE,
              stage |-> "checksum", err |-> ErrAuthCodeInvalid]
        ELSE IF ~r.ok
        THEN [h |-> [h EXCEPT !.verifier = Reset(written), !.seqChecker = r.c],
              checked |-> TRUE, stage |-> "sequence",
              err |-> Errorf(ErrAuthCodeInvalid, "sequence violation")]
        ELSE [h |-> [h EXCEPT !.verifier = Reset(written), !.seqChecker = r.c],
              checked |-> TRUE, stage |-> "ok", err |-> ErrNil]
HbmVerifyNoMinSalt(h, data, mac) ==
    LET u == Uvarint(mac)
        saltSize == Len(mac) - u.size - Size(h.verifier)
        written == Write(Write(h.verifier, SubSeq(mac, 1, u.size + saltSize)), data)
        r == CheckInSequence(h.seqChecker, u.n)
    IN  IF u.size <= 0
        THEN [h |-> [h EXCEPT !.verifier = Reset(@)], checked |-> FALSE, stage |-> "varint",
              err |-> Errorf(ErrAuthCodeInvalid, "too short")]
        ELSE IF saltSize <= 0
        THEN [h |-> [h EXCEPT !.verifier = Reset(@)], checked |-> FALSE, stage |-> "salt",
              err |-> Errorf(ErrAuthCodeInvalid, "too short")]
        ELSE IF ConstantTimeCompare(SubSeq(mac, u.size + saltSize + 1, Len(mac)),
                                    Sum(written)) # 1
        THEN [h |-> [h EXCEPT !.verifier = Reset(written)], checked |-> FALSE,
              stage |-> "checksum", err |-> ErrAuthCodeInvalid]
        ELSE IF ~r.ok
        THEN [h |-> [h EXCEPT !.verifier = Reset(written), !.seqChecker = r.c],
              checked |-> TRUE, stage |-> "sequence",
              err |-> Errorf(ErrAuthCodeInvalid, "sequence violation")]
        ELSE [h |-> [h EXCEPT !.verifier = Reset(written), !.seqChecker = r.c],
              checked |-> TRUE, stage |-> "ok", err |-> ErrNil]
HbmVerify(h, data, mac) ==
    LET u == Uvarint(mac)
        seqNum == u.n
        seqSize == u.size
        saltSize == Len(mac) - seqSize - Size(h.verifier)
        written == Write(Write(h.verifier, SubSeq(mac, 1, seqSize + saltSize)), data)
        compareChecksum == Sum(written)
        r == CheckInSequence(h.seqChecker, seqNum)
    IN  IF seqSize <= 0
        THEN [h |-> [h EXCEPT !.verifier = Reset(@)], checked |-> FALSE, stage |-> "varint",
              err |-> Errorf(ErrAuthCodeInvalid, "too short")]
        ELSE IF saltSize < macMinSaltSize
        THEN [h |-> [h EXCEPT !.verifier = Reset(@)], checked |-> FALSE, stage |-> "salt",
              err |-> Errorf(ErrAuthCodeInvalid, "too short")]
        ELSE IF ConstantTimeCompare(SubSeq(mac, seqSize + saltSize + 1, Len(mac)),
                                    compareChecksum) # 1
        THEN [h |-> [h EXCEPT !.verifier = Reset(written)], checked |-> FALSE,
              stage |-> "checksum", err |-> ErrAuthCodeInvalid]
        ELSE IF ~r.ok
        THEN [h |-> [h EXCEPT !.verifier = Reset(written), !.seqChecker = r.c],
              checked |-> TRUE, stage |-> "sequence",
              err |-> Errorf(ErrAuthCodeInvalid, "sequence violation")]
        ELSE [h |-> [h EXCEPT !.verifier = Reset(written), !.seqChecker = r.c],
              checked |-> TRUE, stage |-> "ok", err |-> ErrNil]

-----------------------------------------------------------------------------
(* The value hasher (hash.go: NewValueHasher, Add, AddString, Sum), as      *)
(* section 4.2 of the specification and hash_test.go describe it.           *)

RECURSIVE Pow256(_)
Pow256(k) == IF k = 0 THEN 1 ELSE 256 * Pow256(k - 1)

\* binary.BigEndian.PutUint64, for the values below 2^31 the model uses.
BigEndian8(n) == [k \in 1 .. 8 |-> IF k <= 4 THEN <<0>> ELSE <<(n \div Pow256(8 - k)) % 256>>]

NewValueHasher(hh) == [hash |-> hh, i |-> 0]

ValueHasherAddNoFraming(vh, field) == [hash |-> Write(vh.hash, field), i |-> vh.i + 1]
\* Add: the field's number, its length, then its bytes.
ValueHasherAdd(vh, field) ==
    [hash |-> Write(Write(Write(vh.hash, BigEndian8(vh.i + 1)), BigEndian8(Len(field))), field),
     i    |-> vh.i + 1]

\* AddString(s) is Add of the bytes of s; a string is the sequence of its byte values.
ValueHasherAddString(vh, s) == ValueHasherAdd(vh, Bytes(s))

ValueHasherSumHashedFinisher(vh) ==
    BigEndian8(vh.i) \o Repeat(Byte(255), 8)
        \o Sum(Write(vh.hash, BigEndian8(vh.i) \o Repeat(Byte(255), 8)))
\* Sum: the finisher (the field count and eight 0xFF bytes), not hashed, and
\* then the digest of the fields.
ValueHasherSum(vh) == BigEndian8(vh.i) \o Repeat(Byte(255), 8) \o Sum(vh.hash)

-----------------------------------------------------------------------------
(* The context-hash challenge (challenge.go) and NewSecret (secret.go). *)

minSecretLength == 32

\* NewSecret: length bytes, at least minSecretLength, read from crypto/rand
\* (here: all of the value r).
NewSecretNoMinimum(length, r) == Repeat(Byte(r), length)
NewSecret(length, r) ==
    Repeat(Byte(r), IF length < minSecretLength THEN minSecretLength ELSE length)

\* fmt.Errorf without %w: an error that wraps none of the package's errors.
NewError(msg) == [nil |-> FALSE, wraps |-> "", msg |-> msg]

ErrChallengeFailed == [nil |-> FALSE, wraps |-> "ErrChallengeFailed", msg |-> ""]

\* "hashed context challenge"
FixedInternalValue ==
    Bytes(<<104, 97, 115, 104, 101, 100, 32, 99, 111, 110, 116, 101, 120, 116, 32,
            99, 104, 97, 108, 108, 101, 110, 103, 101>>)

ChallengeTypeIsValid(ct) == ct = "context-hash-bl3"

\* ChallengeType.New; secret is what NewSecret(32) read from crypto/rand; ops
\* are the cryptographic operations performed on the way.
NewChallenge(ct, purpose, requesterContext, responderContext, r) ==
    IF ~ChallengeTypeIsValid(ct)
    THEN [ok |-> FALSE, hcc |-> <<>>, err |-> NewError("invalid challenge type"), ops |-> <<>>]
    ELSE [ok  |-> TRUE,
          err |-> ErrNil,
          ops |-> <<"rand.Read">>,
          hcc |-> [challengeType    |-> ct,
                   hash             |-> "BLAKE3",
                   challengeData    |-> NewSecret(32, r),
                   purpose          |-> purpose,
                   requesterContext |-> requesterContext,
                   responderContext |-> responderContext]]

GetChallenge(hcc) == hcc.challengeData

\* The receiver after a call: the three methods assign to none of its fields.
GetChallengeReceiver(hcc) == hcc
CheckResponseReceiver(hcc, data) == hcc
MakeResponseReceiverKeepsChallenge(hcc, challenge) == [hcc EXCEPT !.challengeData = challenge]
MakeResponseReceiver(hcc, challenge) == hcc

\* Hash.New: BLAKE3 takes no key (key 0).
HashNew(algo) == NewKeyed(0)

makeHashNoFixedValue(hcc, input, reverse) ==
    LET vh2 == ValueHasherAdd(NewValueHasher(HashNew(hcc.hash)), hcc.purpose)
        vh4 == IF ~reverse
               THEN ValueHasherAdd(ValueHasherAdd(vh2, hcc.requesterContext), hcc.responderContext)
               ELSE ValueHasherAdd(ValueHasherAdd(vh2, hcc.responderContext), hcc.requesterContext)
    IN  ValueHasherSum(ValueHasherAdd(vh4, input))
makeHashNoPurpose(hcc, input, reverse) ==
    LET vh1 == ValueHasherAdd(NewValueHasher(HashNew(hcc.hash)), FixedInternalValue)
        vh4 == IF ~reverse
               THEN ValueHasherAdd(ValueHasherAdd(vh1, hcc.requesterContext), hcc.responderContext)
               ELSE ValueHasherAdd(ValueHasherAdd(vh1, hcc.responderContext), hcc.requesterContext)
    IN  ValueHasherSum(ValueHasherAdd(vh4, input))
makeHashForward(hcc, input, reverse) ==
    LET vh0 == NewValueHasher(HashNew(hcc.hash))
        vh1 == ValueHasherAdd(vh0, FixedInternalValue)
        vh2 == ValueHasherAdd(vh1, hcc.purpose)
        vh4 == ValueHasherAdd(ValueHasherAdd(vh2, hcc.requesterContext), hcc.responderContext)
    IN  ValueHasherSum(ValueHasherAdd(vh4, input))
makeHash(hcc, input, reverse) ==
    LET vh0 == NewValueHasher(HashNew(hcc.hash))
        vh1 == ValueHasherAdd(vh0, FixedInternalValue)
        vh2 == ValueHasherAdd(vh1, hcc.purpose)
        vh4 == IF ~reverse
               THEN ValueHasherAdd(ValueHasherAdd(vh2, hcc.requesterContext), hcc.responderContext)
               ELSE ValueHasherAdd(ValueHasherAdd(vh2, hcc.responderContext), hcc.requesterContext)
    IN  ValueHasherSum(ValueHasherAdd(vh4, input))

CheckResponseReversed(hcc, data) ==
    IF ConstantTimeCompare(data, makeHash(hcc, hcc.challengeData, TRUE)) # 1
    THEN ErrChallengeFailed
    ELSE ErrNil
CheckResponse(hcc, data) ==
    LET comparison == makeHash(hcc, hcc.challengeData, FALSE)
    IN  IF ConstantTimeCompare(data, comparison) # 1 THEN ErrChallengeFailed ELSE ErrNil

MakeResponseDigestOnly(hcc, challenge) ==
    LET sum == makeHash(hcc, challenge, TRUE)
    IN  [response |-> SubSeq(sum, Len(sum) - DigestSize + 1, Len(sum)), err |-> ErrNil]
MakeResponse(hcc, challenge) == [response |-> makeHash(hcc, challenge, TRUE), err |-> ErrNil]

-----------------------------------------------------------------------------
(* The other type-dispatched constructors.  A constructor returns obj (<<>> *)
(* for nil, <<x>> for the object x), err, and ops, the cryptographic        *)
(* operations it performed.  A type is a Go string: the sequence of its     *)
(* bytes.                                                                   *)

\* "HMAC-BLAKE3", "BLAKE3", "X25519", "Ed25519"
MsgAuthCodeTypeHMACBlake3 == <<72, 77, 65, 67, 45, 66, 76, 65, 75, 69, 51>>
MsgAuthCodeTypeBlake3 == <<66, 76, 65, 75, 69, 51>>
KeyMakerTypeBlake3 == <<66, 76, 65, 75, 69, 51>>
KeyExchangeTypeX25519 == <<88, 50, 53, 53, 49, 57>>
KeyPairTypeEd25519 == <<69, 100, 50, 53, 53, 49, 57>>

MsgAuthCodeTypeIsValid(act) == act = MsgAuthCodeTypeHMACBlake3

\* MsgAuthCodeType.New
MsgAuthCodeTypeNew(act, signKey, verifyKey, seqChecker) ==
    IF ~MsgAuthCodeTypeIsValid(act)
    THEN [obj |-> <<>>, err |-> NewError("invalid auth code type"), ops |-> <<>>]
    ELSE IF act = MsgAuthCodeTypeHMACBlake3
    THEN [obj |-> <<NewAuthCodeHandler(signKey, verifyKey, seqChecker)>>, err |-> ErrNil,
          ops |-> <<"hmac.New", "hmac.New">>]
    ELSE IF act = MsgAuthCodeTypeBlake3
    THEN [obj |-> <<NewAuthCodeHandler(signKey, verifyKey, seqChecker)>>, err |-> ErrNil,
          ops |-> <<"blake3.NewKeyed", "blake3.NewKeyed">>]
    ELSE [obj |-> <<>>, err |-> NewError("auth code type not yet implemented"), ops |-> <<>>]

-----------------------------------------------------------------------------
(* The key maker (keymaker.go). *)

\* "nexufend key mkr"
keyMakerBaseContext ==
    <<110, 101, 120, 117, 102, 101, 110, 100, 32, 107, 101, 121, 32, 109, 107, 114>>
keyMakerMinKeySize == 16

ErrRequestedKeyLengthTooSmall ==
    [nil |-> FALSE, wraps |-> "ErrRequestedKeyLengthTooSmall", msg |-> ""]

KeyMakerTypeIsValid(kmt) == kmt = KeyMakerTypeBlake3

NewKeyMakerDefaulting(kmt, keyMaterial) ==
    [obj |-> <<[material |-> keyMaterial]>>, err |-> ErrNil, ops |-> <<>>]
\* KeyMakerType.New
NewKeyMaker(kmt, keyMaterial) ==
    IF ~KeyMakerTypeIsValid(kmt)
    THEN [obj |-> <<>>, err |-> NewError("invalid key maker type"), ops |-> <<>>]
    ELSE IF kmt = KeyMakerTypeBlake3
    THEN [obj |-> <<[material |-> keyMaterial]>>, err |-> ErrNil, ops |-> <<>>]
    ELSE [obj |-> <<>>, err |-> NewError("key maker type not yet implemented"), ops |-> <<>>]

\* blake3.DeriveKey(context, material, dst): byte i of the derived key is a
\* term of the context string and the material, whatever the length of dst.
Blake3DeriveKey(context, material, n) ==
    LET input == <<Len(context)>> \o context \o Flatten(material)
    IN  [i \in 1 .. n |-> <<3, i>> \o input]

\* Blake3Keymaker.DeriveKeyInto, dst being n bytes long.
DeriveKeyInto(b3km, keyContext, keyParty, n) ==
    IF n < keyMakerMinKeySize
    THEN [dst |-> Repeat(Byte(0), n), err |-> ErrRequestedKeyLengthTooSmall]
    ELSE [dst |-> Blake3DeriveKey(keyMakerBaseContext \o keyContext \o keyParty,
                                  b3km.material, n),
          err |-> ErrNil]

\* Blake3Keymaker.DeriveKey
DeriveKey(b3km, keyContext, keyParty, keyLength) ==
    LET r == DeriveKeyInto(b3km, keyContext, keyParty, keyLength)
    IN  [key |-> r.dst, err |-> r.err]

-----------------------------------------------------------------------------
(* The X25519 key exchange.  A private key is the number r that             *)
(* GenerateKey drew; its public key is 32 bytes that name r, and the shared *)
(* secret of two keys names both, in either order.                          *)

ErrCannotReuse == [nil |-> FALSE, wraps |-> "ErrCannotReuse", msg |-> ""]

X25519PublicSize == 32
X25519Public(r) == Repeat(<<5, r>>, X25519PublicSize)

KeyExchangeTypeIsValid(kmt) == kmt = KeyExchangeTypeX25519

\* KeyExchangeType.New; the key material argument is not used.
NewKeyExchange(kmt, keyMaterial, r) ==
    IF ~KeyExchangeTypeIsValid(kmt)
    THEN [obj |-> <<>>, err |-> NewError("invalid key maker type"), ops |-> <<>>]
    ELSE IF kmt = KeyExchangeTypeX25519
    THEN [obj |-> <<[privKey |-> r, used |-> FALSE]>>, err |-> ErrNil,
          ops |-> <<"ecdh.GenerateKey">>]
    ELSE [obj |-> <<>>, err |-> NewError("key maker type not yet implemented"), ops |-> <<>>]

ExchangeMsg(xke) == X25519Public(xke.privKey)

\* ecdh.X25519().NewPublicKey fails unless the key has 32 bytes.
NewPublicKeyFails(exchMsg) == Len(exchMsg) # X25519PublicSize
\* PrivateKey.ECDH fails on a low order point (here: the all-zero key).
ECDHFails(exchMsg) == \A i \in 1 .. Len(exchMsg) : exchMsg[i] = Byte(0)
ECDH(r, remote) ==
    LET q == remote[1]
    IN  IF Len(q) = 2 /\ q[1] = 5
        THEN Repeat(<<6, IF r < q[2] THEN r ELSE q[2], IF r < q[2] THEN q[2] ELSE r>>, 32)
        ELSE Repeat(<<6, r>> \o q, 32)

X25519MakeKeysNeverUsed(xke, exchMsg, keyMakerType) ==
    IF NewPublicKeyFails(exchMsg)
    THEN [xke |-> xke, obj |-> <<>>, err |-> NewError("ecdh: invalid public key")]
    ELSE IF ECDHFails(exchMsg)
    THEN [xke |-> xke, obj |-> <<>>, err |-> NewError("ecdh: bad X25519 remote ECDH input")]
    ELSE LET km == NewKeyMaker(keyMakerType, ECDH(xke.privKey, exchMsg))
         IN  [xke |-> xke, obj |-> km.obj, err |-> km.err]
X25519MakeKeysMarksUsedFirst(xke, exchMsg, keyMakerType) ==
    LET marked == [xke EXCEPT !.used = TRUE]
    IN  IF xke.used
        THEN [xke |-> xke, obj |-> <<>>, err |-> ErrCannotReuse]
        ELSE IF NewPublicKeyFails(exchMsg)
        THEN [xke |-> marked, obj |-> <<>>, err |-> NewError("ecdh: invalid public key")]
        ELSE IF ECDHFails(exchMsg)
        THEN [xke |-> marked, obj |-> <<>>,
              err |-> NewError("ecdh: bad X25519 remote ECDH input")]
        ELSE LET km == NewKeyMaker(keyMakerType, ECDH(xke.privKey, exchMsg))
             IN  IF ~km.err.nil
                 THEN [xke |-> marked, obj |-> <<>>, err |-> km.err]
                 ELSE [xke |-> marked, obj |-> km.obj, err |-> ErrNil]
\* X25519KeyExchange.MakeKeys
X25519MakeKeys(xke, exchMsg, keyMakerType) ==
    IF xke.used
    THEN [xke |-> xke, obj |-> <<>>, err |-> ErrCannotReuse]
    ELSE IF NewPublicKeyFails(exchMsg)
    THEN [xke |-> xke, obj |-> <<>>, err |-> NewError("ecdh: invalid public key")]
    ELSE IF ECDHFails(exchMsg)
    THEN [xke |-> xke, obj |-> <<>>, err |-> NewError("ecdh: bad X25519 remote ECDH input")]
    ELSE LET km == NewKeyMaker(keyMakerType, ECDH(xke.privKey, exchMsg))
         IN  IF ~km.err.nil
             THEN [xke |-> xke, obj |-> <<>>, err |-> km.err]
             ELSE [xke |-> [xke EXCEPT !.used = TRUE], obj |-> km.obj, err |-> ErrNil]

-----------------------------------------------------------------------------
(* Stored keys (secret.go) and Ed25519 key pairs (keypair.go).  Key bytes   *)
(* live in buffers of a heap, a sequence of byte strings; a slice is the    *)
(* number of its buffer, 0 for nil, so that two slices can share a buffer.  *)

ErrInvalidKeyPairType == [nil |-> FALSE, wraps |-> "ErrInvalidKeyPairType", msg |-> ""]
ErrNoPrivateKey == [nil |-> FALSE, wraps |-> "ErrNoPrivateKey", msg |-> ""]
ErrNoPublicKey == [nil |-> FALSE, wraps |-> "ErrNoPublicKey", msg |-> ""]

\* make + copy: a new buffer with the given bytes.
Alloc(heap, bytes) == [heap |-> Append(heap, bytes), ref |-> Len(heap) + 1]
\* clear(slice): every byte of the buffer becomes 0; nothing for a nil slice.
Clear(heap, ref) ==
    IF ref = 0 THEN heap ELSE [heap EXCEPT ![ref] = Repeat(Byte(0), Len(heap[ref]))]

\* strings.EqualFold on ASCII strings.
ToLower(c) == IF c \in 65 .. 90 THEN c + 32 ELSE c
EqualFold(str, t) ==
    /\ Len(str) = Len(t)
    /\ \A i \in 1 .. Len(str) : ToLower(str[i]) = ToLower(t[i])

\* StoredKey.IsType
IsType(sk, expected) == EqualFold(sk.Type, expected)

\* FindStoredKeyType: the stored type, as it is written in the stored key,
\* when it matches an acceptable type.
RECURSIVE FindStoredKeyTypeFrom(_, _, _)
FindStoredKeyTypeFrom(sk, acceptable, i) ==
    IF i > Len(acceptable) THEN [found |-> <<>>, ok |-> FALSE]
    ELSE IF EqualFold(sk.Type, acceptable[i]) THEN [found |-> sk.Type, ok |-> TRUE]
    ELSE FindStoredKeyTypeFrom(sk, acceptable, i + 1)
FindStoredKeyType(sk, acceptable) == FindStoredKeyTypeFrom(sk, acceptable, 1)

\* Ed25519: the private key of seed r is the seed and then the public key
\* (ed25519.PrivateKeySize = 64, PublicKeySize = 32, SignatureSize = 64).
Ed25519PublicKeySize == 32
Ed25519PrivateKeySize == 64
Ed25519SignatureSize == 64
Ed25519Public(r) == Repeat(<<7, r>>, Ed25519PublicKeySize)
Ed25519Private(r) == Repeat(Byte(r), Ed25519PublicKeySize) \o Ed25519Public(r)
\* ed25519.Sign: a term of the seed half, the public half and the message.
Ed25519Sign(priv, data) ==
    Repeat(<<9>> \o priv[1] \o priv[Ed25519PublicKeySize + 1] \o Flatten(data),
           Ed25519SignatureSize)
\* ed25519.Verify: the signature is the one the private key of pub makes.
Ed25519Verify(pub, data, sig) ==
    /\ Len(pub[1]) = 2
    /\ pub[1][1] = 7
    /\ sig = Ed25519Sign(Ed25519Private(pub[1][2]), data)

KeyPairTypeIsValid(kpt) == kpt = KeyPairTypeEd25519

\* KeyPairType.New; r is the seed ed25519.GenerateKey drew.
NewKeyPair(kpType, r, heap) ==
    IF ~KeyPairTypeIsValid(kpType)
    THEN [obj |-> <<>>, err |-> NewError("invalid key pair type"), ops |-> <<>>, heap |-> heap]
    ELSE IF kpType = KeyPairTypeEd25519
    THEN LET pub == Alloc(heap, Ed25519Public(r))
             priv == Alloc(pub.heap, Ed25519Private(r))
         IN  [obj |-> <<[pubKey |-> pub.ref, privKey |-> priv.ref]>>, err |-> ErrNil,
              ops |-> <<"ed25519.GenerateKey">>, heap |-> priv.heap]
    ELSE [obj |-> <<>>, err |-> NewError("key pair type not yet implemented"), ops |-> <<>>,
          heap |-> heap]

\* LoadKeyPair.  PrivateKey.Public() copies the public half into a new
\* buffer and panics on a private key shorter than that half.
LoadKeyPair(stored, heap) ==
    LET t == FindStoredKeyType(stored, <<KeyPairTypeEd25519>>)
    IN  IF ~t.ok
        THEN [obj |-> <<>>, err |-> ErrInvalidKeyPairType, heap |-> heap, panics |-> FALSE]
        ELSE IF t.found = KeyPairTypeEd25519
        THEN IF stored.IsPrivate
             THEN IF stored.Key = 0 \/ Len(heap[stored.Key]) < Ed25519PublicKeySize
                  THEN [obj |-> <<>>, err |-> ErrNil, heap |-> heap, panics |-> TRUE]
                  ELSE LET pub == Alloc(heap, SubSeq(heap[stored.Key],
                                                     Ed25519PublicKeySize + 1,
                                                     Len(heap[stored.Key])))
                       IN  [obj |-> <<[pubKey |-> pub.ref, privKey |-> stored.Key]>>,
                            err |-> ErrNil, heap |-> pub.heap, panics |-> FALSE]
             ELSE [obj |-> <<[pubKey |-> stored.Key, privKey |-> 0]>>, err |-> ErrNil,
                   heap |-> heap, panics |-> FALSE]
        ELSE [obj |-> <<>>, err |-> NewError("key pair type not yet implemented"),
              heap |-> heap, panics |-> FALSE]

EdkpHasPrivate(edkp) == edkp.privKey # 0

EdkpToPublicKeepsPrivate(edkp) == [pubKey |-> edkp.pubKey, privKey |-> edkp.privKey]
EdkpToPublic(edkp) == [pubKey |-> edkp.pubKey, privKey |-> 0]

EdkpSign(edkp, data, heap) ==
    IF edkp.privKey = 0 THEN [signature |-> <<>>, err |-> ErrNoPrivateKey]
    ELSE [signature |-> Ed25519Sign(heap[edkp.privKey], data), err |-> ErrNil]

EdkpVerify(edkp, data, sig, heap) ==
    IF edkp.pubKey = 0 THEN ErrNoPublicKey
    ELSE IF Ed25519Verify(heap[edkp.pubKey], data, sig) THEN ErrNil
    ELSE NewError("ed25519: invalid signature")

EdkpExport(edkp) ==
    IF EdkpHasPrivate(edkp)
    THEN [stored |-> <<[Type |-> KeyPairTypeEd25519, IsPrivate |-> TRUE, Key |-> edkp.privKey]>>,
          err |-> ErrNil]
    ELSE IF edkp.pubKey = 0
    THEN [stored |-> <<>>, err |-> ErrNoPublicKey]
    ELSE [stored |-> <<[Type |-> KeyPairTypeEd25519, IsPrivate |-> FALSE, Key |-> edkp.pubKey]>>,
          err |-> ErrNil]

EdkpBurn(edkp, heap) ==
    [edkp |-> [pubKey |-> 0, privKey |-> 0],
     heap |-> Clear(Clear(heap, edkp.privKey), edkp.pubKey)]

-----------------------------------------------------------------------------
(* Spec: one checker, of either variant, and arbitrary calls on it. *)

SeqInputs == (0 .. MaxLow) \cup {WindowSize + k : k \in 1 .. MaxLow}

NoCall(c) ==
    [op |-> "none", n |-> 0, ok |-> FALSE, ret |-> 0, pre |-> c, acc |-> {}, seen |-> {}]

Callers == {1, 2, 3}

HandlerIds == {"X", "Y"}
Peer(h) == IF h = "X" THEN "Y" ELSE "X"
\* X signs with key A and verifies with key B, Y the other way round.
SignKey(h) == IF h = "X" THEN 1 ELSE 2
VerifyKey(h) == SignKey(Peer(h))

NewHandler(h, kind) == NewAuthCodeHandler(SignKey(h), VerifyKey(h), NewSequenceChecker(kind))

NoMacCall ==
    [op |-> "none", h |-> "X", data |-> <<>>, mac |-> <<>>, seq |-> 0, err |-> ErrNil,
     stage |-> "", checked |-> FALSE, pre |-> NewHandler("X", "strict"), ver |-> {}]

CheckerInit ==
    /\ accepted = {}
    /\ last = NoCall(chk)
    /\ submitted = {}
    /\ got = [g \in Callers |-> <<>>]
    /\ inCall = [g \in Callers |-> 0]

MacInit ==
    /\ wire = {}
    /\ verified = [h \in HandlerIds |-> {}]
    /\ lastMac = NoMacCall

NoChallengeCall ==
    [op |-> "none", slot |-> "", input |-> <<>>, response |-> <<>>, err |-> ErrNil]

ChalInit ==
    /\ insts = <<>>
    /\ built = <<>>
    /\ resps = {}
    /\ lastCh = NoChallengeCall

HasherInit ==
    /\ hasher = NewValueHasher(HashNew("BLAKE3"))
    /\ added = <<>>
    /\ lastSum = <<>>

NoNewCall ==
    [ctor |-> "none", args |-> <<>>, valid |-> FALSE, obj |-> <<>>, err |-> ErrNil,
     ops |-> <<>>, n |-> 0]

NewInit ==
    /\ lastNew = NoNewCall

\* The two goroutines that call MakeKeys, and the private key of the instance.
KexCallers == {1, 2}
OwnPrivKey == 1

NoKexCall ==
    [op |-> "none", exchMsg |-> <<>>, keyMakerType |-> <<>>, after |-> FALSE, obj |-> <<>>,
     err |-> ErrNil, keyContext |-> <<>>, keyParty |-> <<>>, n |-> 0, key |-> <<>>]

KeysInit ==
    /\ kex = NewKeyExchange(KeyExchangeTypeX25519, <<>>, OwnPrivKey).obj[1]
    /\ pending = [g \in KexCallers |-> <<>>]
    /\ returned = FALSE
    /\ keyMaker = <<>>
    /\ lastKex = NoKexCall

\* The generated pair, a pair made by ToPublic, and a pair made by LoadKeyPair.
KpSlots == {"kp", "pub", "loaded"}

NoKpCall ==
    [op |-> "none", slot |-> "", origin |-> "", type |-> <<>>, err |-> ErrNil,
     panics |-> FALSE, has |-> FALSE]

KpInit ==
    /\ mem = <<>>
    /\ kps = [k \in KpSlots |-> <<>>]
    /\ origin = [k \in KpSlots |-> "none"]
    /\ exported = <<>>
    /\ signed = <<>>
    /\ lastKp = NoKpCall

\* The goroutines that call Sign and Verify on one handler.
Goroutines == {1, 2}

NoFrame ==
    [pc |-> "idle", op |-> "", data |-> <<>>, mac |-> <<>>, prefix |-> <<>>, seq |-> 0,
     sum |-> <<>>, err |-> ErrNil]

LockInit ==
    /\ signLock = 0
    /\ verifyLock = 0
    /\ frames = [g \in Goroutines |-> NoFrame]

ExtInit ==
    /\ HasherInit
    /\ NewInit
    /\ KeysInit
    /\ KpInit
    /\ LockInit

Init ==
    /\ chk \in {NewStrictSequenceChecker, NewLooseSequenceChecker}
    /\ CheckerInit
    /\ hbm = [h \in HandlerIds |-> NewHandler(h, "strict")]
    /\ MacInit
    /\ ChalInit
    /\ ExtInit

DoCheckInSequence(n) ==
    LET r == CheckInSequence(chk, n)
    IN  /\ chk' = r.c
        /\ accepted' = IF r.ok THEN accepted \cup {n} ELSE accepted
        /\ last' = [op |-> "CheckInSequence", n |-> n, ok |-> r.ok, ret |-> 0,
                    pre |-> chk, acc |-> accepted, seen |-> submitted]
        /\ UNCHANGED <<submitted, got, inCall>>
        /\ UNCHANGED macVars
        /\ UNCHANGED chalVars
        /\ UNCHANGED extVars

DoNextOutSequence ==
    /\ chk.outSeq < MaxOut
    /\ LET r == NextOutSequence(chk)
       IN  /\ chk' = r.c
           /\ last' = [op |-> "NextOutSequence", n |-> 0, ok |-> TRUE, ret |-> r.ret,
                       pre |-> chk, acc |-> accepted, seen |-> submitted]
    /\ UNCHANGED <<accepted, submitted, got, inCall>>
    /\ UNCHANGED macVars
    /\ UNCHANGED chalVars
    /\ UNCHANGED extVars

Next ==
    \/ \E n \in SeqInputs : DoCheckInSequence(n)
    \/ DoNextOutSequence

Spec == Init /\ [][Next]_vars

-----------------------------------------------------------------------------
(* SpecOut: concurrent callers of NextOutSequence on one fresh checker.  A  *)
(* call is the atomic Add; the caller then returns with the value it got.   *)

CallNextOutSequence(g) ==
    /\ inCall[g] = 0
    /\ Len(got[g]) < MaxCalls
    /\ LET r == NextOutSequence(chk)
       IN  /\ chk' = r.c
           /\ inCall' = [inCall EXCEPT ![g] = r.ret + 1]
    /\ UNCHANGED <<accepted, last, submitted, got>>
    /\ UNCHANGED macVars
    /\ UNCHANGED chalVars
    /\ UNCHANGED extVars

ReturnNextOutSequence(g) ==
    /\ inCall[g] # 0
    /\ got' = [got EXCEPT ![g] = Append(@, inCall[g] - 1)]
    /\ inCall' = [inCall EXCEPT ![g] = 0]
    /\ UNCHANGED <<chk, accepted, last, submitted>>
    /\ UNCHANGED macVars
    /\ UNCHANGED chalVars
    /\ UNCHANGED extVars

NextOut ==
    \/ \E g \in Callers : CallNextOutSequence(g)
    \/ \E g \in Callers : ReturnNextOutSequence(g)

SpecOut == Init /\ [][NextOut]_vars

-----------------------------------------------------------------------------
(* SpecWindow and SpecPerm: the scenarios of the sliding-window tests.  In  *)
(* SpecWindow a fresh LooseSequenceChecker is given numbers until it        *)
(* accepts a first one, h, and then any numbers below h, any number of      *)
(* times.  In SpecPerm it is given numbers of 1..WindowSize, each at most   *)
(* once, in any order.                                                      *)

InitLoose ==
    /\ Init
    /\ chk = NewLooseSequenceChecker

\* One call of CheckInSequence(n), noted in submitted.
Submit(n) ==
    LET r == CheckInSequence(chk, n)
    IN  /\ chk' = r.c
        /\ accepted' = IF r.ok THEN accepted \cup {n} ELSE accepted
        /\ last' = [op |-> "CheckInSequence", n |-> n, ok |-> r.ok, ret |-> 0,
                    pre |-> chk, acc |-> accepted, seen |-> submitted]
        /\ submitted' = submitted \cup {n}
        /\ UNCHANGED <<got, inCall>>
        /\ UNCHANGED macVars
        /\ UNCHANGED chalVars
        /\ UNCHANGED extVars

SubmitFirst(h) ==
    /\ accepted = {}
    /\ Submit(h)

SubmitLate(n) ==
    /\ accepted # {}
    /\ n < chk.inHighest
    /\ Submit(n)

NextWindow ==
    \/ \E h \in SeqInputs : SubmitFirst(h)
    \/ \E n \in SeqInputs : SubmitLate(n)

SpecWindow == InitLoose /\ [][NextWindow]_vars

\* Numbers at both ends of 1..WindowSize.
PermInputs == (1 .. MaxLow) \cup {WindowSize - k : k \in 0 .. (MaxLow - 1)}

SubmitDistinct(n) ==
    /\ n \notin submitted
    /\ Submit(n)

NextPerm == \E n \in PermInputs : SubmitDistinct(n)

SpecPerm == InitLoose /\ [][NextPerm]_vars

-----------------------------------------------------------------------------
(* SpecMAC: two handlers with mirrored keys, each bound to its own checker. *)
(* Sign puts its tag on the wire; Verify is called with any data and with   *)
(* a tag from the wire, as it is or damaged, with a malformed tag, or with  *)
(* a tag of another implementation that holds a key (PeerTags).             *)

DataSet == {Bytes(<<1>>), Bytes(<<2>>)}

\* The salt rand.Read produces: macSaltSize bytes.  A digest is a symbolic
\* term over the bytes written, so one salt value stands for any other.
Salts == {Repeat(Byte(33), macSaltSize)}

Forge(mac, kind) ==
    CASE kind = "asis" -> mac
      [] kind = "flip" -> SubSeq(mac, 1, Len(mac) - 1) \o <<Byte(255)>>
      [] kind = "cut1" -> SubSeq(mac, 1, Len(mac) - 1)
      [] kind = "salt8" -> SubSeq(mac, 1, Len(mac) - (macSaltSize - macMinSaltSize))
      [] kind = "salt7" -> SubSeq(mac, 1, Len(mac) - (macSaltSize - macMinSaltSize) - 1)

ForgeKinds == {"asis", "flip", "cut1", "salt8", "salt7"}

Malformed == {<<>>, <<Byte(128)>>, Repeat(Byte(128), MaxVarintLen64 + 1)}

\* A tag with a valid digest, a salt of saltLen bytes and sequence number seq.
CraftTag(key, seq, saltLen, data) ==
    LET prefix == Bytes(PutUvarint(seq)) \o Repeat(Byte(35), saltLen)
    IN  prefix \o Sum(Write(Write(NewKeyed(key), prefix), data))

PeerTags ==
    {CraftTag(SignKey(h), seq, saltLen, Bytes(<<1>>)) :
        h \in HandlerIds, seq \in {300}, saltLen \in {macMinSaltSize - 1, macMinSaltSize}}

\* Tags with a varint that are too short to hold a digest, or hold nothing else.
ShortTags == {Bytes(<<1>>), Bytes(<<1, 35>>) \o Repeat(Byte(35), DigestSize - 1)}

VerifyInputs ==
    {Forge(w.mac, k) : w \in wire, k \in ForgeKinds} \cup Malformed \cup PeerTags \cup ShortTags

InitMAC ==
    /\ chk = NewStrictSequenceChecker
    /\ CheckerInit
    /\ \E kind \in {"strict", "loose"} : hbm = [h \in HandlerIds |-> NewHandler(h, kind)]
    /\ MacInit
    /\ ChalInit
    /\ ExtInit

Sign(h, data, salt) ==
    /\ lastMac.op = "none"
    /\ Cardinality(wire) < MaxSign
    /\ LET r == HbmSign(hbm[h], data, salt)
       IN  /\ hbm' = [hbm EXCEPT ![h] = r.h]
           /\ wire' = wire \cup {[from |-> h, data |-> data, seq |-> r.seq, mac |-> r.mac]}
           /\ lastMac' = [op |-> "Sign", h |-> h, data |-> data, mac |-> r.mac, seq |-> r.seq,
                          err |-> ErrNil, stage |-> "", checked |-> FALSE, pre |-> hbm[h],
                          ver |-> verified[h]]
    /\ UNCHANGED verified
    /\ UNCHANGED checkerVars
    /\ UNCHANGED chalVars
    /\ UNCHANGED extVars

Verify(h, data, mac) ==
    /\ lastMac.op = "none"
    /\ LET r == HbmVerify(hbm[h], data, mac)
       IN  /\ hbm' = [hbm EXCEPT ![h] = r.h]
           /\ verified' = IF r.err.nil THEN [verified EXCEPT ![h] = @ \cup {mac}] ELSE verified
           /\ lastMac' = [op |-> "Verify", h |-> h, data |-> data, mac |-> mac,
                          seq |-> Uvarint(mac).n, err |-> r.err, stage |-> r.stage,
                          checked |-> r.checked, pre |-> hbm[h], ver |-> verified[h]]
    /\ UNCHANGED wire
    /\ UNCHANGED checkerVars
    /\ UNCHANGED chalVars
    /\ UNCHANGED extVars

\* The caller has looked at what the call returned and goes on.
Return ==
    /\ lastMac.op # "none"
    /\ lastMac' = NoMacCall
    /\ UNCHANGED <<hbm, wire, verified>>
    /\ UNCHANGED checkerVars
    /\ UNCHANGED chalVars
    /\ UNCHANGED extVars

NextMAC ==
    \/ \E h \in HandlerIds, data \in DataSet, salt \in Salts : Sign(h, data, salt)
    \/ \E h \in HandlerIds, data \in DataSet, mac \in VerifyInputs : Verify(h, data, mac)
    \/ Return

SpecMAC == InitMAC /\ [][NextMAC]_vars

-----------------------------------------------------------------------------
(* SpecChallenge: each of two parties constructs a Challenge instance with  *)
(* any purpose and contexts; MakeResponse is called with the challenge of   *)
(* any instance, as it is or with a bit flipped; CheckResponse is called    *)
(* with any response made so far, as it is or damaged.                      *)

Parties == {"initiator", "peer"}
Purposes == {Bytes(<<112>>), Bytes(<<113>>)}
Contexts == {Bytes(<<97>>), Bytes(<<98>>)}
SecretBytes == {1, 2}

InitChallenge ==
    /\ chk = NewStrictSequenceChecker
    /\ CheckerInit
    /\ hbm = [h \in HandlerIds |-> NewHandler(h, "strict")]
    /\ MacInit
    /\ ChalInit
    /\ ExtInit

Construct(party, purpose, requesterContext, responderContext, r) ==
    /\ lastCh.op = "none"
    /\ party \notin DOMAIN insts
    /\ LET c == NewChallenge("context-hash-bl3", purpose, requesterContext, responderContext, r)
       IN  /\ c.ok
           /\ insts' = [q \in DOMAIN insts \cup {party} |-> IF q = party THEN c.hcc ELSE insts[q]]
           /\ built' = [q \in DOMAIN built \cup {party} |-> IF q = party THEN c.hcc ELSE built[q]]
           /\ lastCh' = [op |-> "NewChallenge", slot |-> party, input |-> <<>>,
                         response |-> <<>>, err |-> ErrNil]
    /\ UNCHANGED resps
    /\ UNCHANGED checkerVars
    /\ UNCHANGED macVars
    /\ UNCHANGED extVars

ChallengeInputs ==
    UNION {{GetChallenge(insts[k]), <<Byte(3)>> \o Tail(GetChallenge(insts[k]))} :
              k \in DOMAIN insts}

DoMakeResponse(k, challenge) ==
    /\ lastCh.op = "none"
    /\ Cardinality(resps) < MaxResponses
    /\ LET r == MakeResponse(insts[k], challenge)
       IN  /\ resps' = resps \cup {[by |-> insts[k], challenge |-> challenge,
                                    response |-> r.response]}
           /\ lastCh' = [op |-> "MakeResponse", slot |-> k, input |-> challenge,
                         response |-> r.response, err |-> r.err]
    /\ insts' = [insts EXCEPT ![k] = MakeResponseReceiver(@, challenge)]
    /\ UNCHANGED built
    /\ UNCHANGED checkerVars
    /\ UNCHANGED macVars
    /\ UNCHANGED extVars

ResponseInputs ==
    UNION {{x.response, SubSeq(x.response, 1, Len(x.response) - 1) \o <<Byte(255)>>} :
              x \in resps}

DoCheckResponse(k, data) ==
    /\ lastCh.op = "none"
    /\ lastCh' = [op |-> "CheckResponse", slot |-> k, input |-> data, response |-> <<>>,
                  err |-> CheckResponse(insts[k], data)]
    /\ insts' = [insts EXCEPT ![k] = CheckResponseReceiver(@, data)]
    /\ UNCHANGED <<built, resps>>
    /\ UNCHANGED checkerVars
    /\ UNCHANGED macVars
    /\ UNCHANGED extVars

ReturnChallenge ==
    /\ lastCh.op # "none"
    /\ lastCh' = NoChallengeCall
    /\ UNCHANGED <<insts, built, resps>>
    /\ UNCHANGED checkerVars
    /\ UNCHANGED macVars
    /\ UNCHANGED extVars

NextChallenge ==
    \/ \E party \in Parties, p \in Purposes, a \in Contexts, b \in Contexts, r \in SecretBytes :
          Construct(party, p, a, b, r)
    \/ \E k \in DOMAIN insts : \E c \in ChallengeInputs : DoMakeResponse(k, c)
    \/ \E k \in DOMAIN insts : \E d \in ResponseInputs : DoCheckResponse(k, d)
    \/ ReturnChallenge

SpecChallenge == InitChallenge /\ [][NextChallenge]_vars

-----------------------------------------------------------------------------
(* SpecGet: SpecChallenge with calls of GetChallenge as steps of their own. *)

DoGetChallenge(k) ==
    /\ lastCh.op = "none"
    /\ lastCh' = [op |-> "GetChallenge", slot |-> k, input |-> <<>>,
                  response |-> GetChallenge(insts[k]), err |-> ErrNil]
    /\ insts' = [insts EXCEPT ![k] = GetChallengeReceiver(@)]
    /\ UNCHANGED <<built, resps>>
    /\ UNCHANGED checkerVars
    /\ UNCHANGED macVars
    /\ UNCHANGED extVars

NextGet ==
    \/ NextChallenge
    \/ \E k \in DOMAIN insts : DoGetChallenge(k)

SpecGet == InitChallenge /\ [][NextGet]_vars

-----------------------------------------------------------------------------
(* SpecHasher: one value hasher is fed up to MaxFields fields, by Add or by *)
(* AddString, and then summed; a new hasher is constructed after that.      *)

MaxFields == 3

\* The fields given to Add (the empty one stands for nil and for []byte{})
\* and the strings given to AddString: "", "c" and "bc".
HasherFields == {<<>>, Bytes(<<97>>), Bytes(<<98>>), Bytes(<<97, 98>>)}
HasherStrings == {<<>>, <<99>>, <<98, 99>>}

InitHasher ==
    /\ chk = NewStrictSequenceChecker
    /\ CheckerInit
    /\ hbm = [h \in HandlerIds |-> NewHandler(h, "strict")]
    /\ MacInit
    /\ ChalInit
    /\ ExtInit

DoAdd(field) ==
    /\ lastSum = <<>>
    /\ Len(added) < MaxFields
    /\ hasher' = ValueHasherAdd(hasher, field)
    /\ added' = Append(added, field)
    /\ UNCHANGED lastSum
    /\ UNCHANGED notHasherVars

DoAddString(str) ==
    /\ lastSum = <<>>
    /\ Len(added) < MaxFields
    /\ hasher' = ValueHasherAddString(hasher, str)
    /\ added' = Append(added, Bytes(str))
    /\ UNCHANGED lastSum
    /\ UNCHANGED notHasherVars

DoSum ==
    /\ lastSum = <<>>
    /\ lastSum' = ValueHasherSum(hasher)
    /\ UNCHANGED <<hasher, added>>
    /\ UNCHANGED notHasherVars

DoNewValueHasher ==
    /\ lastSum # <<>>
    /\ hasher' = NewValueHasher(HashNew("BLAKE3"))
    /\ added' = <<>>
    /\ lastSum' = <<>>
    /\ UNCHANGED notHasherVars

NextHasher ==
    \/ \E field \in HasherFields : DoAdd(field)
    \/ \E str \in HasherStrings : DoAddString(str)
    \/ DoSum
    \/ DoNewValueHasher

SpecHasher == InitHasher /\ [][NextHasher]_vars

-----------------------------------------------------------------------------
(* SpecNew: one call of a constructor, or of NewSecret, after the other,    *)
(* with valid and invalid types.                                            *)

\* "context-hash-bl3" and two types that are not supported
ChallengeTypes == {"context-hash-bl3", "invalid", ""}
\* every supported type, "", "nope", "ed25519" and "hmac-blake3"
TypeInputs ==
    {MsgAuthCodeTypeHMACBlake3, MsgAuthCodeTypeBlake3, KeyExchangeTypeX25519,
     KeyPairTypeEd25519, <<>>, <<110, 111, 112, 101>>,
     <<101, 100, 50, 53, 53, 49, 57>>,
     <<104, 109, 97, 99, 45, 98, 108, 97, 107, 101, 51>>}
KeyInputs == {1, 2}
MaterialInputs == {Repeat(Byte(1), 32), <<>>}
SecretLengths == {-1, 0, 1, 31, 32, 33, 64}

InitNew ==
    /\ chk = NewStrictSequenceChecker
    /\ CheckerInit
    /\ hbm = [h \in HandlerIds |-> NewHandler(h, "strict")]
    /\ MacInit
    /\ ChalInit
    /\ ExtInit

CallNewChallenge(ct, purpose, requesterContext, responderContext, r) ==
    /\ LET c == NewChallenge(ct, purpose, requesterContext, responderContext, r)
       IN  lastNew' = [ctor |-> "NewChallenge",
                       args |-> <<ct, purpose, requesterContext, responderContext>>,
                       valid |-> ChallengeTypeIsValid(ct),
                       obj |-> IF c.ok THEN <<c.hcc>> ELSE <<>>, err |-> c.err,
                       ops |-> c.ops, n |-> 0]
    /\ UNCHANGED notNewVars

CallNewAuthCodeHandler(act, signKey, verifyKey, kind) ==
    /\ LET c == MsgAuthCodeTypeNew(act, signKey, verifyKey, NewSequenceChecker(kind))
       IN  lastNew' = [ctor |-> "NewAuthCodeHandler",
                       args |-> <<act, signKey, verifyKey, kind>>,
                       valid |-> MsgAuthCodeTypeIsValid(act),
                       obj |-> c.obj, err |-> c.err, ops |-> c.ops, n |-> 0]
    /\ UNCHANGED notNewVars

CallNewKeyMaker(kmt, key) ==
    /\ LET c == NewKeyMaker(kmt, key)
       IN  lastNew' = [ctor |-> "NewKeyMaker", args |-> <<kmt, key>>,
                       valid |-> KeyMakerTypeIsValid(kmt),
                       obj |-> c.obj, err |-> c.err, ops |-> c.ops, n |-> 0]
    /\ UNCHANGED notNewVars

CallNewKeyExchange(kmt, key, r) ==
    /\ LET c == NewKeyExchange(kmt, key, r)
       IN  lastNew' = [ctor |-> "NewKeyExchange", args |-> <<kmt, key>>,
                       valid |-> KeyExchangeTypeIsValid(kmt),
                       obj |-> c.obj, err |-> c.err, ops |-> c.ops, n |-> 0]
    /\ UNCHANGED notNewVars

CallNewKeyPair(kpType, r) ==
    /\ LET c == NewKeyPair(kpType, r, <<>>)
       IN  lastNew' = [ctor |-> "NewKeyPair", args |-> <<kpType>>,
                       valid |-> KeyPairTypeIsValid(kpType),
                       obj |-> c.obj, err |-> c.err, ops |-> c.ops, n |-> 0]
    /\ UNCHANGED notNewVars

CallNewSecret(length, r) ==
    /\ lastNew' = [ctor |-> "NewSecret", args |-> <<length>>, valid |-> TRUE, obj |-> <<NewSecret(length, r)>>,
                   err |-> ErrNil, ops |-> <<"rand.Read">>, n |-> length]
    /\ UNCHANGED notNewVars

NextNew ==
    \/ \E ct \in ChallengeTypes, p \in Purposes, a \in Contexts, b \in Contexts,
           r \in SecretBytes : CallNewChallenge(ct, p, a, b, r)
    \/ \E act \in TypeInputs, sk \in KeyInputs, vk \in KeyInputs, kind \in {"strict", "loose"} :
          CallNewAuthCodeHandler(act, sk, vk, kind)
    \/ \E kmt \in TypeInputs, key \in MaterialInputs : CallNewKeyMaker(kmt, key)
    \/ \E kmt \in TypeInputs, key \in MaterialInputs, r \in KeyInputs :
          CallNewKeyExchange(kmt, key, r)
    \/ \E kpType \in TypeInputs, r \in KeyInputs : CallNewKeyPair(kpType, r)
    \/ \E length \in SecretLengths, r \in SecretBytes : CallNewSecret(length, r)

SpecNew == InitNew /\ [][NextNew]_vars

-----------------------------------------------------------------------------
(* SpecKeys: goroutines call MakeKeys on one X25519KeyExchange, with valid  *)
(* and invalid arguments.  MakeKeys takes no lock: a call reads the used    *)
(* flag when it starts and writes it when it returns, and another call can  *)
(* start in between.  DeriveKey is then called on the KeyMaker returned.    *)

\* The peer's public key, a key that is too short, and the all-zero key.
ExchMsgs == {X25519Public(2), Bytes(<<115, 104, 111, 114, 116>>), Repeat(Byte(0), 32)}
\* "BLAKE3" and the zero value of KeyMakerType
KeyMakerTypes == {KeyMakerTypeBlake3, <<>>}
\* "a", "ab" and "b", "bc", "c", "": the contexts and the parties of DeriveKey
KeyContexts == {<<97>>, <<97, 98>>}
KeyParties == {<<98>>, <<98, 99>>, <<99>>, <<>>}
KeyLengths == {15, 16, 32}

InitKeys ==
    /\ chk = NewStrictSequenceChecker
    /\ CheckerInit
    /\ hbm = [h \in HandlerIds |-> NewHandler(h, "strict")]
    /\ MacInit
    /\ ChalInit
    /\ ExtInit

\* MakeKeys up to the test of the used flag.
StartMakeKeys(g, exchMsg, keyMakerType) ==
    /\ pending[g] = <<>>
    /\ pending' = [pending EXCEPT ![g] = <<[exchMsg |-> exchMsg, keyMakerType |-> keyMakerType,
                                            used |-> kex.used, after |-> returned]>>]
    /\ UNCHANGED <<kex, returned, keyMaker, lastKex>>
    /\ UNCHANGED notKeysVars

\* The rest of MakeKeys, with the flag as it was read.
FinishMakeKeys(g) ==
    /\ pending[g] # <<>>
    /\ LET call == pending[g][1]
           r == X25519MakeKeys([kex EXCEPT !.used = call.used], call.exchMsg, call.keyMakerType)
       IN  /\ kex' = [kex EXCEPT !.used = kex.used \/ (r.xke.used /\ ~call.used)]
           /\ returned' = (returned \/ r.err.nil)
           /\ keyMaker' = IF r.err.nil THEN r.obj ELSE keyMaker
           /\ lastKex' = [NoKexCall EXCEPT !.op = "MakeKeys", !.exchMsg = call.exchMsg,
                                           !.keyMakerType = call.keyMakerType,
                                           !.after = call.after, !.obj = r.obj, !.err = r.err]
    /\ pending' = [pending EXCEPT ![g] = <<>>]
    /\ UNCHANGED notKeysVars

DoExchangeMsg ==
    /\ lastKex' = [NoKexCall EXCEPT !.op = "ExchangeMsg", !.key = ExchangeMsg(kex)]
    /\ UNCHANGED <<kex, pending, returned, keyMaker>>
    /\ UNCHANGED notKeysVars

DoDeriveKey(keyContext, keyParty, keyLength) ==
    /\ keyMaker # <<>>
    /\ LET r == DeriveKey(keyMaker[1], keyContext, keyParty, keyLength)
       IN  lastKex' = [NoKexCall EXCEPT !.op = "DeriveKey", !.obj = keyMaker,
                                       !.keyContext = keyContext, !.keyParty = keyParty,
                                       !.n = keyLength, !.key = r.key, !.err = r.err]
    /\ UNCHANGED <<kex, pending, returned, keyMaker>>
    /\ UNCHANGED notKeysVars

NextKeys ==
    \/ \E g \in KexCallers, exchMsg \in ExchMsgs, kmt \in KeyMakerTypes :
          StartMakeKeys(g, exchMsg, kmt)
    \/ \E g \in KexCallers : FinishMakeKeys(g)
    \/ DoExchangeMsg
    \/ \E c \in KeyContexts, q \in KeyParties, n \in KeyLengths : DoDeriveKey(c, q, n)

SpecKeys == InitKeys /\ [][NextKeys]_vars

-----------------------------------------------------------------------------
(* SpecKeyPair: a key pair is generated; pairs are made from it by ToPublic *)
(* and, through Export, by LoadKeyPair; any pair signs, verifies, is        *)
(* exported and is burned.                                                  *)

Seeds == {1, 2}
\* "Ed25519", "ed25519", "ED25519", "X25519" and ""
StoredTypes ==
    {KeyPairTypeEd25519, <<101, 100, 50, 53, 53, 49, 57>>, <<69, 68, 50, 53, 53, 49, 57>>,
     KeyExchangeTypeX25519, <<>>}

\* The stored keys given to LoadKeyPair: the exported one, its type written
\* in any way, and stored keys without key bytes.
StoredInputs ==
    {[Type |-> t, IsPrivate |-> x[1].IsPrivate, Key |-> x[1].Key] :
        t \in StoredTypes, x \in {exported} \ {<<>>}}
      \cup {[Type |-> KeyPairTypeEd25519, IsPrivate |-> b, Key |-> 0] : b \in BOOLEAN}

InitKeyPair ==
    /\ chk = NewStrictSequenceChecker
    /\ CheckerInit
    /\ hbm = [h \in HandlerIds |-> NewHandler(h, "strict")]
    /\ MacInit
    /\ ChalInit
    /\ ExtInit

DoNewKeyPair(r) ==
    /\ origin["kp"] = "none"
    /\ LET c == NewKeyPair(KeyPairTypeEd25519, r, mem)
       IN  /\ kps' = [kps EXCEPT !["kp"] = c.obj]
           /\ mem' = c.heap
           /\ origin' = [origin EXCEPT !["kp"] = "New"]
           /\ lastKp' = [NoKpCall EXCEPT !.op = "NewKeyPair", !.slot = "kp", !.err = c.err,
                                         !.has = EdkpHasPrivate(c.obj[1])]
    /\ UNCHANGED <<exported, signed>>
    /\ UNCHANGED notKpVars

DoToPublic(from) ==
    /\ from # "pub"
    /\ kps[from] # <<>>
    /\ LET pub == EdkpToPublic(kps[from][1])
       IN  /\ kps' = [kps EXCEPT !["pub"] = <<pub>>]
           /\ origin' = [origin EXCEPT !["pub"] = "ToPublic"]
           /\ lastKp' = [NoKpCall EXCEPT !.op = "ToPublic", !.slot = from,
                                         !.origin = origin[from], !.has = EdkpHasPrivate(pub)]
    /\ UNCHANGED <<mem, exported, signed>>
    /\ UNCHANGED notKpVars

DoExport(k) ==
    /\ kps[k] # <<>>
    /\ LET r == EdkpExport(kps[k][1])
       IN  /\ exported' = IF r.err.nil THEN r.stored ELSE exported
           /\ lastKp' = [NoKpCall EXCEPT !.op = "Export", !.slot = k, !.origin = origin[k],
                                         !.err = r.err, !.has = EdkpHasPrivate(kps[k][1])]
    /\ UNCHANGED <<mem, kps, origin, signed>>
    /\ UNCHANGED notKpVars

\* LoadKeyPair; a call that panics leaves nothing behind.
DoLoadKeyPair(sk) ==
    /\ origin["loaded"] = "none"
    /\ LET r == LoadKeyPair(sk, mem)
           done == ~r.panics /\ r.err.nil
       IN  /\ kps' = IF done THEN [kps EXCEPT !["loaded"] = r.obj] ELSE kps
           /\ mem' = IF done THEN r.heap ELSE mem
           /\ origin' = IF ~done THEN origin
                         ELSE [origin EXCEPT !["loaded"] =
                                  IF sk.IsPrivate THEN "LoadPrivate" ELSE "LoadPublic"]
           /\ lastKp' = [NoKpCall EXCEPT !.op = "LoadKeyPair", !.slot = "loaded",
                                         !.type = sk.Type, !.err = r.err, !.panics = r.panics,
                                         !.has = done /\ EdkpHasPrivate(r.obj[1])]
    /\ UNCHANGED <<exported, signed>>
    /\ UNCHANGED notKpVars

DoSign(k, data) ==
    /\ kps[k] # <<>>
    /\ LET r == EdkpSign(kps[k][1], data, mem)
       IN  /\ signed' = IF r.err.nil THEN <<[data |-> data, signature |-> r.signature]>>
                      ELSE signed
           /\ lastKp' = [NoKpCall EXCEPT !.op = "Sign", !.slot = k, !.origin = origin[k],
                                         !.err = r.err, !.has = EdkpHasPrivate(kps[k][1])]
    /\ UNCHANGED <<mem, kps, origin, exported>>
    /\ UNCHANGED notKpVars

DoVerify(k, data) ==
    /\ kps[k] # <<>>
    /\ signed # <<>>
    /\ lastKp' = [NoKpCall EXCEPT !.op = "Verify", !.slot = k, !.origin = origin[k],
                                  !.err = EdkpVerify(kps[k][1], data, signed[1].signature, mem),
                                  !.has = EdkpHasPrivate(kps[k][1])]
    /\ UNCHANGED <<mem, kps, origin, exported, signed>>
    /\ UNCHANGED notKpVars

DoBurn(k) ==
    /\ kps[k] # <<>>
    /\ LET r == EdkpBurn(kps[k][1], mem)
       IN  /\ kps' = [kps EXCEPT ![k] = <<r.edkp>>]
           /\ mem' = r.heap
           /\ origin' = [origin EXCEPT ![k] = "Burn"]
           /\ lastKp' = [NoKpCall EXCEPT !.op = "Burn", !.slot = k, !.origin = origin[k],
                                         !.has = EdkpHasPrivate(r.edkp)]
    /\ UNCHANGED <<exported, signed>>
    /\ UNCHANGED notKpVars

NextKeyPair ==
    \/ \E r \in Seeds : DoNewKeyPair(r)
    \/ \E from \in KpSlots : DoToPublic(from)
    \/ \E k \in KpSlots : DoExport(k)
    \/ \E sk \in StoredInputs : DoLoadKeyPair(sk)
    \/ \E k \in KpSlots, data \in DataSet : DoSign(k, data)
    \/ \E k \in KpSlots, data \in DataSet : DoVerify(k, data)
    \/ \E k \in KpSlots : DoBurn(k)

SpecKeyPair == InitKeyPair /\ [][NextKeyPair]_vars

-----------------------------------------------------------------------------
(* SpecBurn: the generated pair kp signs, pub is made of it by ToPublic,    *)
(* kp is burned, and either pair is exported and verifies what kp has      *)
(* signed.                                                                  *)

NextBurn ==
    \/ \E r \in Seeds : DoNewKeyPair(r)
    \/ DoToPublic("kp")
    \/ \E data \in DataSet : DoSign("kp", data)
    \/ \E k \in {"kp", "pub"}, data \in DataSet : DoVerify(k, data)
    \/ \E k \in {"kp", "pub"} : DoExport(k)
    \/ DoBurn("kp")

SpecBurn == InitKeyPair /\ [][NextBurn]_vars

-----------------------------------------------------------------------------
(* SpecLock: goroutines call Sign and Verify on handler "X", statement by   *)
(* statement: the lock, the sequence number, the two writes, the sum, the   *)
(* sequence check, and the deferred Reset and Unlock, which run in that     *)
(* order when the call returns, on every path.                              *)

\* The hash object a call works on, and the handler with that object replaced.
HashOf(h, op) == IF op = "Sign" THEN h.signer ELSE h.verifier
WithHash(h, op, hh) ==
    IF op = "Sign" THEN [h EXCEPT !.signer = hh] ELSE [h EXCEPT !.verifier = hh]

ResetHashSkipped(h, op) == h
\* defer hbm.signer.Reset() / defer hbm.verifier.Reset()
ResetHash(h, op) == WithHash(h, op, Reset(HashOf(h, op)))

\* What Verify is called with: tags of the peer, which signs with the key "X"
\* verifies with, a tag without a varint and a tag that is too short.
LockTags ==
    {CraftTag(VerifyKey("X"), seq, macSaltSize, data) : seq \in {1, 2}, data \in DataSet}
        \cup {<<>>, Bytes(<<1>>)}

MutexFreeAlways(holder) == TRUE
\* sync.Mutex: Lock returns only when no goroutine holds the mutex.
MutexFree(holder) == holder = 0

InitLock ==
    /\ chk = NewStrictSequenceChecker
    /\ CheckerInit
    /\ \E kind \in {"strict", "loose"} : hbm = [h \in HandlerIds |-> NewHandler(h, kind)]
    /\ MacInit
    /\ ChalInit
    /\ ExtInit

\* Sign: hbm.signLock.Lock()
SignLockStep(g, data) ==
    /\ frames[g].pc = "idle"
    /\ MutexFree(signLock)
    /\ hbm["X"].seqChecker.outSeq < MaxSign
    /\ signLock' = g
    /\ frames' = [frames EXCEPT ![g] = [NoFrame EXCEPT !.pc = "sequence", !.op = "Sign",
                                                       !.data = data]]
    /\ UNCHANGED <<verifyLock, macVars>>
    /\ UNCHANGED notLockVars

\* Sign: NextOutSequence, PutUvarint and rand.Read
SignSequence(g, salt) ==
    /\ frames[g].pc = "sequence"
    /\ frames[g].op = "Sign"
    /\ LET r == NextOutSequence(hbm["X"].seqChecker)
       IN  /\ hbm' = [hbm EXCEPT !["X"].seqChecker = r.c]
           /\ frames' = [frames EXCEPT ![g].pc = "header", ![g].seq = r.ret,
                                       ![g].prefix = Bytes(PutUvarint(r.ret)) \o salt]
    /\ UNCHANGED <<signLock, verifyLock, wire, verified, lastMac>>
    /\ UNCHANGED notLockVars

\* Verify: hbm.verifyLock.Lock(), and the checks of the varint and of the salt size
VerifyLockStep(g, data, mac) ==
    /\ frames[g].pc = "idle"
    /\ MutexFree(verifyLock)
    /\ verifyLock' = g
    /\ LET u == Uvarint(mac)
           saltSize == Len(mac) - u.size - Size(hbm["X"].verifier)
           f == [NoFrame EXCEPT !.op = "Verify", !.data = data, !.mac = mac, !.seq = u.n]
       IN  frames' = [frames EXCEPT ![g] =
               IF u.size <= 0 \/ saltSize < macMinSaltSize
               THEN [f EXCEPT !.pc = "reset", !.err = Errorf(ErrAuthCodeInvalid, "too short")]
               ELSE [f EXCEPT !.pc = "header", !.prefix = SubSeq(mac, 1, u.size + saltSize)]]
    /\ UNCHANGED <<signLock, macVars>>
    /\ UNCHANGED notLockVars

\* Write(mac[:size])
WriteHeader(g) ==
    /\ frames[g].pc = "header"
    /\ hbm' = [hbm EXCEPT !["X"] =
                   WithHash(@, frames[g].op, Write(HashOf(@, frames[g].op), frames[g].prefix))]
    /\ frames' = [frames EXCEPT ![g].pc = "data"]
    /\ UNCHANGED <<signLock, verifyLock, wire, verified, lastMac>>
    /\ UNCHANGED notLockVars

\* Write(data)
WriteData(g) ==
    /\ frames[g].pc = "data"
    /\ hbm' = [hbm EXCEPT !["X"] =
                   WithHash(@, frames[g].op, Write(HashOf(@, frames[g].op), frames[g].data))]
    /\ frames' = [frames EXCEPT ![g].pc = "sum"]
    /\ UNCHANGED <<signLock, verifyLock, wire, verified, lastMac>>
    /\ UNCHANGED notLockVars

\* Sign: copy(mac[size:], hbm.signer.Sum(nil)) and return
SignSum(g) ==
    /\ frames[g].pc = "sum"
    /\ frames[g].op = "Sign"
    /\ frames' = [frames EXCEPT ![g].pc = "reset", ![g].sum = Sum(hbm["X"].signer),
                                ![g].mac = frames[g].prefix \o Sum(hbm["X"].signer)]
    /\ UNCHANGED <<signLock, verifyLock, macVars>>
    /\ UNCHANGED notLockVars

\* Verify: hbm.verifier.Sum(nil) and the comparison
VerifyCompare(g) ==
    /\ frames[g].pc = "sum"
    /\ frames[g].op = "Verify"
    /\ LET f == frames[g]
           compareChecksum == Sum(hbm["X"].verifier)
       IN  frames' = [frames EXCEPT ![g] =
               IF ConstantTimeCompare(SubSeq(f.mac, Len(f.prefix) + 1, Len(f.mac)),
                                      compareChecksum) # 1
               THEN [f EXCEPT !.pc = "reset", !.sum = compareChecksum,
                              !.err = ErrAuthCodeInvalid]
               ELSE [f EXCEPT !.pc = "sequence", !.sum = compareChecksum]]
    /\ UNCHANGED <<signLock, verifyLock, macVars>>
    /\ UNCHANGED notLockVars

\* Verify: hbm.seqChecker.CheckInSequence(seqNum) and return
VerifySequence(g) ==
    /\ frames[g].pc = "sequence"
    /\ frames[g].op = "Verify"
    /\ LET r == CheckInSequence(hbm["X"].seqChecker, frames[g].seq)
       IN  /\ hbm' = [hbm EXCEPT !["X"].seqChecker = r.c]
           /\ frames' = [frames EXCEPT ![g].pc = "reset",
                             ![g].err = IF r.ok THEN ErrNil
                                        ELSE Errorf(ErrAuthCodeInvalid, "sequence violation")]
    /\ UNCHANGED <<signLock, verifyLock, wire, verified, lastMac>>
    /\ UNCHANGED notLockVars

\* The deferred Reset of the call's hash object.
DeferredReset(g) ==
    /\ frames[g].pc = "reset"
    /\ hbm' = [hbm EXCEPT !["X"] = ResetHash(@, frames[g].op)]
    /\ frames' = [frames EXCEPT ![g].pc = "unlock"]
    /\ UNCHANGED <<signLock, verifyLock, wire, verified, lastMac>>
    /\ UNCHANGED notLockVars

\* The deferred Unlock; the call has returned.
DeferredUnlock(g) ==
    /\ frames[g].pc = "unlock"
    /\ signLock' = IF frames[g].op = "Sign" THEN 0 ELSE signLock
    /\ verifyLock' = IF frames[g].op = "Verify" THEN 0 ELSE verifyLock
    /\ frames' = [frames EXCEPT ![g].pc = "returned"]
    /\ UNCHANGED macVars
    /\ UNCHANGED notLockVars

\* The goroutine has looked at what the call returned and goes on.
Done(g) ==
    /\ frames[g].pc = "returned"
    /\ frames' = [frames EXCEPT ![g] = NoFrame]
    /\ UNCHANGED <<signLock, verifyLock, macVars>>
    /\ UNCHANGED notLockVars

NextLock ==
    \/ \E g \in Goroutines, data \in DataSet : SignLockStep(g, data)
    \/ \E g \in Goroutines, salt \in Salts : SignSequence(g, salt)
    \/ \E g \in Goroutines, data \in DataSet, mac \in LockTags : VerifyLockStep(g, data, mac)
    \/ \E g \in Goroutines : WriteHeader(g)
    \/ \E g \in Goroutines : WriteData(g)
    \/ \E g \in Goroutines : SignSum(g)
    \/ \E g \in Goroutines : VerifyCompare(g)
    \/ \E g \in Goroutines : VerifySequence(g)
    \/ \E g \in Goroutines : DeferredReset(g)
    \/ \E g \in Goroutines : DeferredUnlock(g)
    \/ \E g \in Goroutines : Done(g)

SpecLock == InitLock /\ [][NextLock]_vars

-----------------------------------------------------------------------------
(* Claims about the sequence checkers. *)

CheckedBy(kind) == last.op = "CheckInSequence" /\ last.pre.kind = kind

\* C1 (as claimed): the sliding-window checker never accepts a sequence number
\* that it has accepted before.
C1_LooseNeverAcceptsTwice ==
    (CheckedBy("loose") /\ last.ok) => last.n \notin last.acc

\* C5: the strict checker accepts n, and records it as the highest, exactly
\* when n is greater than the highest; a rejection leaves the highest alone; so
\* every accepted number is greater than all accepted before it, and the
\* highest is the largest accepted number (0 if none).
C5_StrictAcceptsIffHigher ==
    chk.kind = "strict" =>
        /\ chk.inSeq = Max(accepted \cup {0})
        /\ CheckedBy("strict") =>
              /\ last.ok = (last.n > last.pre.inSeq)
              /\ last.ok => chk.inSeq = last.n
              /\ ~last.ok => chk.inSeq = last.pre.inSeq
              /\ last.ok => \A a \in last.acc : a < last.n

C5_Witness ==
    /\ CheckedBy("strict")
    /\ last.ok
    /\ last.acc # {}
    /\ last.n > last.pre.inSeq + 1

\* The values handed out so far in SpecOut, returned or about to be returned.
Issued == [g \in Callers |-> got[g] \o (IF inCall[g] = 0 THEN <<>> ELSE <<inCall[g] - 1>>)]

NumIssued(v) == Cardinality({<<g, i>> \in Callers \X (1 .. (MaxCalls + 1)) :
                                 i <= Len(Issued[g]) /\ Issued[g][i] = v})

TotalCalls == Cardinality({<<g, i>> \in Callers \X (1 .. (MaxCalls + 1)) : i <= Len(Issued[g])})

\* C8: after N calls of NextOutSequence by concurrent callers on a fresh checker
\* of either variant, the values handed out are exactly 1..N, each once.
C8_OutSequenceIsPermutation ==
    /\ \A v \in 1 .. TotalCalls : NumIssued(v) = 1
    /\ \A g \in Callers : \A i \in 1 .. Len(Issued[g]) : Issued[g][i] \in 1 .. TotalCalls

C8_Witness ==
    /\ \A g \in Callers : Len(got[g]) = MaxCalls
    /\ \E g \in Callers : got[g][2] > got[g][1] + 1
    /\ \E g \in Callers : got[g][1] = 1

\* C11: in the sliding-window checker, a number n above the highest is
\* accepted, becomes the highest, and the bitmap becomes the old one moved up
\* by n - highest positions within 64 bits: bit p is set exactly when bit
\* p - (n - highest) was; with n - highest >= 64 no bit is left.
C11_ForwardShiftsBitMap ==
    (CheckedBy("loose") /\ last.n > last.pre.inHighest) =>
        LET d == last.n - last.pre.inHighest
        IN  /\ last.ok
            /\ chk.inHighest = last.n
            /\ chk.inBitMap = {p \in 0 .. 63 : (p - d) \in last.pre.inBitMap}
            /\ d >= 64 => chk.inBitMap = {}

C11_Witness ==
    /\ CheckedBy("loose")
    /\ last.n - last.pre.inHighest >= 64
    /\ last.pre.inBitMap # {}
    /\ last.acc # {}

\* C12: in the sliding-window checker, a number n below the highest, with
\* diff = highest - n, is rejected when diff > 64 and when bit diff - 1 of the
\* bitmap is set, and is accepted otherwise, with that one bit set in addition;
\* the highest stays as it was in all three cases.
C12_LateChecksBitMap ==
    (CheckedBy("loose") /\ last.n < last.pre.inHighest) =>
        LET diff == last.pre.inHighest - last.n
        IN  /\ chk.inHighest = last.pre.inHighest
            /\ diff > 64 => (~last.ok /\ chk.inBitMap = last.pre.inBitMap)
            /\ (diff <= 64 /\ (diff - 1) \in last.pre.inBitMap) =>
                   (~last.ok /\ chk.inBitMap = last.pre.inBitMap)
            /\ (diff <= 64 /\ (diff - 1) \notin last.pre.inBitMap) =>
                   (last.ok /\ chk.inBitMap = last.pre.inBitMap \cup {diff - 1})

C12_Witness ==
    /\ CheckedBy("loose")
    /\ last.pre.inHighest - last.n = 64
    /\ last.ok
    /\ last.pre.inBitMap # {}

\* C13: after a fresh sliding-window checker has accepted a first number h, a
\* number n < h with h - n <= 64 is accepted when it is submitted for the
\* first time and rejected when it is submitted again after that, and a
\* number with h - n >= 65 is rejected.
C13_WindowBoundary ==
    (last.op = "CheckInSequence" /\ last.acc # {}) =>
        LET h == last.pre.inHighest
        IN  /\ (h - last.n <= 64 /\ last.n \notin last.seen) => last.ok
            /\ (h - last.n <= 64 /\ last.n \in last.acc) => ~last.ok
            /\ h - last.n >= 65 => ~last.ok

\* 64 below h has been accepted and refused the second time, and 65 below h
\* has been refused.
C13_Witness ==
    /\ last.op = "CheckInSequence"
    /\ last.pre.inHighest - last.n = 64
    /\ last.n \in last.acc
    /\ ~last.ok
    /\ (last.n - 1) \in submitted \ accepted

\* C15: a fresh sliding-window checker accepts every number of 1..64 that is
\* submitted to it, in whatever order they come, each once.
C15_PermutationAccepted ==
    /\ accepted = submitted
    /\ last.op = "CheckInSequence" => last.ok

\* 1 arrives after 64 and others, 63 positions late.
C15_Witness ==
    /\ last.op = "CheckInSequence"
    /\ last.n = 1
    /\ last.ok
    /\ 64 \in last.acc
    /\ Cardinality(accepted) = Cardinality(PermInputs)

\* C14: on a checker of either variant that has accepted nothing yet,
\* CheckInSequence(0) returns false and leaves the checker as it was.
C14_FreshRejectsZero ==
    (last.op = "CheckInSequence" /\ last.acc = {} /\ last.n = 0) =>
        (~last.ok /\ chk = last.pre)

C14_Witness ==
    /\ CheckedBy("loose")
    /\ last.acc = {}
    /\ last.n = 0
    /\ ~last.ok
    /\ chk.inBitMap = fullBitMap

\* C29: for the sliding-window checker, in every state and for each k in
\* 1..64 with inHighest - k >= 1, bit k-1 of inBitMap is set exactly when
\* inHighest - k has been accepted.
C29_BitMapMirrorsAccepted ==
    chk.kind = "loose" =>
        \A k \in 1 .. BitMapWidth :
            chk.inHighest - k >= 1 =>
                ((k - 1) \in chk.inBitMap <=> (chk.inHighest - k) \in accepted)

\* The inbound state of a checker, and a checker with another outbound counter.
Inbound(c) == <<c.inSeq, c.inBitMap, c.inHighest>>
WithOutSeq(c, n) == [c EXCEPT !.outSeq = n]
WithInbound(c, d) == [c EXCEPT !.inSeq = d.inSeq, !.inBitMap = d.inBitMap, !.inHighest = d.inHighest]

\* C32: NextOutSequence leaves inSeq, inBitMap and inHighest as they were and
\* returns what it would return on a checker that never checked a number;
\* CheckInSequence leaves outSeq as it was and answers, and changes the
\* inbound state, as it would on a checker that never issued a number.
C32_DirectionsIndependent ==
    /\ last.op = "NextOutSequence" =>
           /\ Inbound(chk) = Inbound(last.pre)
           /\ chk.outSeq = last.pre.outSeq + 1
           /\ last.ret = NextOutSequence(WithInbound(last.pre, NewSequenceChecker(chk.kind))).ret
    /\ last.op = "CheckInSequence" =>
           /\ chk.outSeq = last.pre.outSeq
           /\ LET alone == CheckInSequence(WithOutSeq(last.pre, 0), last.n)
              IN  /\ last.ok = alone.ok
                  /\ Inbound(chk) = Inbound(alone.c)

\* A number is accepted by a loose checker that has issued and accepted
\* numbers before.
C32_Witness ==
    /\ chk.kind = "loose"
    /\ last.op = "CheckInSequence"
    /\ last.ok
    /\ last.pre.outSeq > 0
    /\ last.pre.inHighest > 0

\* C34: a CheckInSequence call that returns false leaves the checker, of
\* either variant, exactly as it was before the call.
C34_RejectedChangesNothing ==
    (last.op = "CheckInSequence" /\ ~last.ok) => chk = last.pre

\* A number is rejected by a checker that has accepted a higher number: by
\* the strict one because it is lower, by the loose one because its bit is set.
C34_Witness ==
    /\ last.op = "CheckInSequence"
    /\ ~last.ok
    /\ last.n >= 1
    /\ \/ chk.kind = "strict" /\ last.n < chk.inSeq
       \/ /\ chk.kind = "loose"
          /\ last.n < chk.inHighest
          /\ chk.inHighest - last.n <= WindowSize
          /\ (chk.inHighest - last.n - 1) \in chk.inBitMap

C35_StrictRejectsZero ==
    chk.kind = "strict" => ~CheckInSequence(chk, 0).ok

-----------------------------------------------------------------------------
(* Claims about the hash-based MAC. *)

InState(c) == <<c.inSeq, c.inBitMap, c.inHighest>>

TagParses(mac) == Uvarint(mac).size > 0
SaltLen(mac) == Len(mac) - Uvarint(mac).size - DigestSize
\* The trailing DigestSize bytes are the keyed digest of varint || salt || data.
DigestMatches(key, data, mac) ==
    LET body == SubSeq(mac, 1, Len(mac) - DigestSize)
    IN  SubSeq(mac, Len(mac) - DigestSize + 1, Len(mac)) = Sum(Write(NewKeyed(key), body \o data))
ChecksumValid(key, data, mac) ==
    TagParses(mac) /\ SaltLen(mac) >= macMinSaltSize /\ DigestMatches(key, data, mac)

Verifying == lastMac.op = "Verify"
LastKey == VerifyKey(lastMac.h)
SignedBy(h) == {w \in wire : w.from = h}

\* C2: a Verify whose tag has no varint, too short a salt or a wrong checksum
\* fails without calling CheckInSequence and leaves the inbound state of the
\* handler's checker as it was.
C2_SequenceCheckedAfterChecksum ==
    (Verifying /\ ~ChecksumValid(LastKey, lastMac.data, lastMac.mac)) =>
        /\ ~lastMac.checked
        /\ ~lastMac.err.nil
        /\ InState(hbm[lastMac.h].seqChecker) = InState(lastMac.pre.seqChecker)

C2_Witness ==
    /\ Verifying
    /\ lastMac.stage = "checksum"
    /\ CheckInSequence(lastMac.pre.seqChecker, lastMac.seq).ok
    /\ \E w \in SignedBy(Peer(lastMac.h)) : lastMac.mac = Forge(w.mac, "flip")

\* C3 (as claimed): with a sliding-window checker, no tag produced by the
\* peer's Sign is accepted by Verify more than once.
C3_NoTagAcceptedTwice ==
    (/\ Verifying
     /\ lastMac.pre.seqChecker.kind = "loose"
     /\ lastMac.err.nil
     /\ \E w \in SignedBy(Peer(lastMac.h)) : w.mac = lastMac.mac)
    => lastMac.mac \notin lastMac.ver

\* C4: with a strict checker, a tag with a valid checksum whose sequence number
\* is not above that of a tag verified before is rejected with an error that
\* matches ErrAuthCodeInvalid.
C4_StrictRejectsOldTag ==
    (/\ Verifying
     /\ lastMac.pre.seqChecker.kind = "strict"
     /\ ChecksumValid(LastKey, lastMac.data, lastMac.mac)
     /\ \E t \in lastMac.ver : lastMac.seq <= Uvarint(t).n)
    => ErrorsIs(lastMac.err, ErrAuthCodeInvalid)

C4_Witness ==
    /\ Verifying
    /\ lastMac.pre.seqChecker.kind = "strict"
    /\ ChecksumValid(LastKey, lastMac.data, lastMac.mac)
    /\ \E w \in SignedBy(Peer(lastMac.h)) : w.mac = lastMac.mac
    /\ \E t \in lastMac.ver : lastMac.seq < Uvarint(t).n
    /\ \E w \in SignedBy(Peer(lastMac.h)) : w.mac \in lastMac.ver
    /\ lastMac.stage = "sequence"

\* C9: Verify returns nil exactly when the varint parses, the salt region has
\* at least 8 bytes, the trailing bytes are the keyed digest and the checker
\* accepts the sequence number; every other result matches ErrAuthCodeInvalid.
C9_VerifyNilIff ==
    Verifying =>
        /\ lastMac.err.nil <=>
              /\ TagParses(lastMac.mac)
              /\ SaltLen(lastMac.mac) >= macMinSaltSize
              /\ DigestMatches(LastKey, lastMac.data, lastMac.mac)
              /\ CheckInSequence(lastMac.pre.seqChecker, Uvarint(lastMac.mac).n).ok
        /\ ~lastMac.err.nil => ErrorsIs(lastMac.err, ErrAuthCodeInvalid)

C9_Witness ==
    /\ Verifying
    /\ lastMac.err.nil
    /\ SaltLen(lastMac.mac) = macMinSaltSize
    /\ Uvarint(lastMac.mac).size = 2

\* C16: Verify rejects every tag whose salt region, len(tag) - varintLen -
\* digestSize, has fewer than 8 bytes (a negative number included) with an
\* error matching ErrAuthCodeInvalid, at the salt check, before a checksum is
\* computed and before the checker is asked; and every tag of Sign has a salt
\* region of exactly 16 bytes.
C16_ShortSaltRejected ==
    /\ (Verifying /\ TagParses(lastMac.mac) /\ SaltLen(lastMac.mac) < 8) =>
           /\ ErrorsIs(lastMac.err, ErrAuthCodeInvalid)
           /\ lastMac.stage = "salt"
           /\ ~lastMac.checked
           /\ hbm[lastMac.h].verifier = lastMac.pre.verifier
    /\ \A w \in wire : SaltLen(w.mac) = 16

\* A tag with a valid checksum over a salt of 7 bytes and a number the checker
\* would accept has been refused.
C16_Witness ==
    /\ Verifying
    /\ SaltLen(lastMac.mac) = 7
    /\ DigestMatches(LastKey, lastMac.data, lastMac.mac)
    /\ CheckInSequence(lastMac.pre.seqChecker, lastMac.seq).ok
    /\ lastMac.stage = "salt"
    /\ wire # {}

\* C17: the tag Sign returns is varint(seq) || salt || digest with a salt of
\* 16 bytes, seq the number after the last one handed out, taken from the
\* checker once, and digest the keyed digest of varint(seq) || salt || data.
C17_SignLayout ==
    lastMac.op = "Sign" =>
        LET seq == lastMac.pre.seqChecker.outSeq + 1
            varint == Bytes(PutUvarint(seq))
            salt == SubSeq(lastMac.mac, Len(varint) + 1, Len(varint) + 16)
        IN  /\ lastMac.seq = seq
            /\ hbm[lastMac.h].seqChecker.outSeq = seq
            /\ Len(lastMac.mac) = Len(varint) + 16 + DigestSize
            /\ SubSeq(lastMac.mac, 1, Len(varint)) = varint
            /\ salt \in Salts
            /\ SubSeq(lastMac.mac, Len(varint) + 17, Len(lastMac.mac)) =
                  Sum(Write(NewKeyed(SignKey(lastMac.h)), varint \o salt \o lastMac.data))

C17_Witness ==
    /\ lastMac.op = "Sign"
    /\ lastMac.seq = MaxSign
    /\ lastMac.pre.seqChecker.outSeq = MaxSign - 1

\* Whether seq is new to, and in order for, a checker that has accepted seen.
InOrderFor(kind, seen, seq) ==
    IF kind = "strict"
    THEN \A n \in seen : seq > n
    ELSE seq \notin seen /\ \A n \in seen : seq + WindowSize >= n

\* C10: a tag of the peer's Sign, with the data it was signed for, is accepted
\* when its sequence number is new and in order for the verifier's checker, in
\* both directions; with other data it is rejected.
C10_RoundTrip ==
    Verifying =>
        \A w \in SignedBy(Peer(lastMac.h)) :
            w.mac = lastMac.mac =>
                /\ (/\ lastMac.data = w.data
                    /\ InOrderFor(lastMac.pre.seqChecker.kind,
                                  {Uvarint(t).n : t \in lastMac.ver}, w.seq))
                   => lastMac.err.nil
                /\ lastMac.data # w.data => ~lastMac.err.nil

C10_Witness ==
    /\ Verifying
    /\ lastMac.h = "X"
    /\ lastMac.err.nil
    /\ \E w \in SignedBy("Y") : w.mac = lastMac.mac
    /\ \E w \in SignedBy("X") : w.mac \in verified["Y"]

\* The last call is a Verify, by a handler, of a tag its own Sign returned.
Reflected ==
    Verifying /\ \E w \in SignedBy(lastMac.h) : w.mac = lastMac.mac

\* C37: a handler whose signKey differs from its verifyKey rejects every tag
\* of its own Sign, with whatever data, and the rejection leaves the inbound
\* state of its sequence checker as it was.
C37_OwnTagRejected ==
    (Reflected /\ SignKey(lastMac.h) # VerifyKey(lastMac.h)) =>
        /\ ~lastMac.err.nil
        /\ ErrorsIs(lastMac.err, ErrAuthCodeInvalid)
        /\ InState(hbm[lastMac.h].seqChecker) = InState(lastMac.pre.seqChecker)

\* A handler is given its own tag with the data it signed, and a sequence
\* number its checker would accept: the tag fails at the checksum.
C37_Witness ==
    /\ Reflected
    /\ \E w \in SignedBy(lastMac.h) : w.mac = lastMac.mac /\ w.data = lastMac.data
    /\ lastMac.stage = "checksum"
    /\ CheckInSequence(lastMac.pre.seqChecker, lastMac.seq).ok

\* C30: the deferred Reset runs on every path of Sign and Verify, before the
\* Unlock: whenever signLock (verifyLock) is free, and already when a call is
\* about to release it, the signer (verifier) is as NewKeyed made it; so the
\* digest of a call is that of its own prefix and data under the key alone.
C30_HashResetBeforeUnlock ==
    /\ signLock = 0 => hbm["X"].signer = NewKeyed(SignKey("X"))
    /\ verifyLock = 0 => hbm["X"].verifier = NewKeyed(VerifyKey("X"))
    /\ \A g \in Goroutines :
           /\ frames[g].pc = "unlock" =>
                  HashOf(hbm["X"], frames[g].op) = HashOf(NewHandler("X", "strict"), frames[g].op)
           /\ frames[g].sum # <<>> =>
                  frames[g].sum
                      = Sum(Write(Write(HashOf(NewHandler("X", "strict"), frames[g].op),
                                        frames[g].prefix), frames[g].data))

\* A Verify call has returned on the checksum path, with an error, after a
\* Sign call has returned, and both locks are free.
C30_Witness ==
    /\ signLock = 0
    /\ verifyLock = 0
    /\ hbm["X"].seqChecker.outSeq > 0
    /\ \E g \in Goroutines :
           /\ frames[g].pc = "returned"
           /\ frames[g].op = "Verify"
           /\ frames[g].sum # <<>>
           /\ ErrorsIs(frames[g].err, ErrAuthCodeInvalid)

\* A goroutine is inside Sign or Verify: it has taken the lock and not released it.
InProgress(g) == frames[g].pc \notin {"idle", "returned"}

\* What the hash object of a call in progress holds, from the call's own writes.
OwnWrites(f) ==
    LET fresh == HashOf(NewHandler("X", "strict"), f.op)
    IN  CASE f.pc = "data" -> Write(fresh, f.prefix)
          [] f.pc = "sum" \/ (f.pc = "sequence" /\ f.op = "Verify")
               \/ (f.pc = "reset" /\ f.sum # <<>>) -> Write(Write(fresh, f.prefix), f.data)
          [] OTHER -> fresh

\* C31: at most one Sign and at most one Verify are in progress on a handler,
\* each holding its lock, and the signer (verifier) holds exactly what the one
\* Sign (Verify) in progress has written, never writes of two calls.
C31_OneWriterPerHash ==
    /\ \A g1, g2 \in Goroutines :
           InProgress(g1) /\ InProgress(g2) /\ frames[g1].op = frames[g2].op => g1 = g2
    /\ \A g \in Goroutines :
           InProgress(g) =>
               /\ (IF frames[g].op = "Sign" THEN signLock ELSE verifyLock) = g
               /\ HashOf(hbm["X"], frames[g].op) = OwnWrites(frames[g])

\* A Sign and a Verify are in progress at the same time, each between its two
\* writes, after an earlier Sign has returned.
C31_Witness ==
    /\ hbm["X"].seqChecker.outSeq = 2
    /\ \E g1, g2 \in Goroutines :
           /\ frames[g1].op = "Sign" /\ frames[g1].pc = "data"
           /\ frames[g2].op = "Verify" /\ frames[g2].pc = "data"
           /\ signLock = g1
           /\ verifyLock = g2

-----------------------------------------------------------------------------
(* Claims about the challenge. *)

Checking == lastCh.op = "CheckResponse"
Checker == insts[lastCh.slot]

\* The responses to the checking instance's own challenge that were made by an
\* instance with the same purpose and with contexts req, res.
AnswersBy(req, res) ==
    {x \in resps : /\ x.challenge = GetChallenge(Checker)
                   /\ x.by.purpose = Checker.purpose
                   /\ x.by.requesterContext = req
                   /\ x.by.responderContext = res}

\* C6: the response that a responder constructed with (p, b, a) makes to the
\* challenge of a requester constructed with (p, a, b) passes the requester's
\* CheckResponse.
C6_SwappedResponseAccepted ==
    Checking =>
        \A x \in AnswersBy(Checker.responderContext, Checker.requesterContext) :
            lastCh.input = x.response => lastCh.err.nil

C6_Witness ==
    /\ Checking
    /\ lastCh.err.nil
    /\ Checker.requesterContext # Checker.responderContext
    /\ \E x \in AnswersBy(Checker.responderContext, Checker.requesterContext) :
          lastCh.input = x.response /\ x.by # Checker

\* C7 (as claimed): for any purpose and any pair of contexts, the response
\* that an instance with the same, unswapped contexts makes to the instance's
\* own challenge is rejected with ErrChallengeFailed.
C7_UnswappedResponseRejected ==
    Checking =>
        \A x \in AnswersBy(Checker.requesterContext, Checker.responderContext) :
            lastCh.input = x.response => ErrorsIs(lastCh.err, ErrChallengeFailed)

\* C7 (amended): the same, for instances whose requesterContext and
\* responderContext differ.
C7_UnswappedResponseRejectedIfDistinct ==
    (Checking /\ Checker.requesterContext # Checker.responderContext) =>
        \A x \in AnswersBy(Checker.requesterContext, Checker.responderContext) :
            lastCh.input = x.response => ErrorsIs(lastCh.err, ErrChallengeFailed)

C7_Witness ==
    /\ Checking
    /\ Checker.requesterContext # Checker.responderContext
    /\ \E x \in AnswersBy(Checker.requesterContext, Checker.responderContext) :
          lastCh.input = x.response /\ x.by = Checker
    /\ ErrorsIs(lastCh.err, ErrChallengeFailed)

\* The byte stream the value hasher feeds to the hash for fields 1..n: for
\* each field its number, its length and its bytes (buildValueHasherStream).
RECURSIVE ValueHasherStream(_, _)
ValueHasherStream(fields, n) ==
    IF n = 0 THEN <<>>
    ELSE ValueHasherStream(fields, n - 1)
             \o BigEndian8(n) \o BigEndian8(Len(fields[n])) \o fields[n]

\* The value hash of the fields: the finisher and the digest of the stream.
ValueHash(fields) ==
    BigEndian8(Len(fields)) \o Repeat(Byte(255), 8)
        \o Sum(Write(HashNew("BLAKE3"), ValueHasherStream(fields, Len(fields))))

\* C18: CheckResponse returns nil exactly when the candidate is the value hash
\* of ("hashed context challenge", purpose, requesterContext, responderContext,
\* own challenge), and ErrChallengeFailed otherwise; MakeResponse(c) returns
\* the value hash of ("hashed context challenge", purpose, responderContext,
\* requesterContext, c).
C18_ResponseIsValueHash ==
    /\ Checking =>
          /\ lastCh.err.nil <=>
                lastCh.input = ValueHash(<<FixedInternalValue, Checker.purpose,
                                           Checker.requesterContext, Checker.responderContext,
                                           Checker.challengeData>>)
          /\ ~lastCh.err.nil => lastCh.err = ErrChallengeFailed
    /\ lastCh.op = "MakeResponse" =>
          /\ lastCh.err.nil
          /\ lastCh.response = ValueHash(<<FixedInternalValue, insts[lastCh.slot].purpose,
                                           insts[lastCh.slot].responderContext,
                                           insts[lastCh.slot].requesterContext, lastCh.input>>)

\* The correctly swapped response with its last byte changed has been refused.
C18_Witness ==
    /\ Checking
    /\ lastCh.err = ErrChallengeFailed
    /\ Checker.requesterContext # Checker.responderContext
    /\ \E x \in AnswersBy(Checker.responderContext, Checker.requesterContext) :
          /\ lastCh.input # x.response
          /\ SubSeq(lastCh.input, 1, Len(lastCh.input) - 1) =
                SubSeq(x.response, 1, Len(x.response) - 1)

\* What a response is made of, in the order the requester hashes it.
MadeOf(hcc, challenge) ==
    <<hcc.purpose, hcc.responderContext, hcc.requesterContext, challenge>>
ExpectedBy(hcc) ==
    <<hcc.purpose, hcc.requesterContext, hcc.responderContext, hcc.challengeData>>

\* C19: the response depends on the purpose, on each context and on the
\* challenge: MakeResponse calls that differ in any of them give different
\* responses, and CheckResponse of an instance refuses a response that was
\* made for another purpose, pair of contexts or challenge than its own.
C19_ResponseBoundToInputs ==
    /\ lastCh.op = "MakeResponse" =>
          \A k \in DOMAIN insts : \A c \in ChallengeInputs :
              MadeOf(insts[k], c) # MadeOf(insts[lastCh.slot], lastCh.input)
                  => MakeResponse(insts[k], c).response # lastCh.response
    /\ Checking =>
          \A x \in resps :
              (lastCh.input = x.response /\ MadeOf(x.by, x.challenge) # ExpectedBy(Checker))
                  => ErrorsIs(lastCh.err, ErrChallengeFailed)

\* A response that is right but for the purpose has been refused.
C19_Witness ==
    /\ Checking
    /\ ErrorsIs(lastCh.err, ErrChallengeFailed)
    /\ \E x \in resps :
          /\ lastCh.input = x.response
          /\ x.challenge = Checker.challengeData
          /\ x.by.responderContext = Checker.requesterContext
          /\ x.by.requesterContext = Checker.responderContext
          /\ x.by.purpose # Checker.purpose

\* C20 (as claimed): the response of MakeResponse is the raw digest, as long
\* as the digest of the algorithm and no longer.
C20_ResponseIsRawDigest ==
    lastCh.op = "MakeResponse" => Len(lastCh.response) = Size(HashNew("BLAKE3"))

\* C20 (amended): the response of MakeResponse is the output of the value
\* hasher: the 16 bytes of the finisher (the field count 5 and eight 0xFF
\* bytes) and then the raw digest; its length is 16 plus the digest size.
C20_ResponseIsFinisherAndDigest ==
    lastCh.op = "MakeResponse" =>
        /\ Len(lastCh.response) = 16 + Size(HashNew("BLAKE3"))
        /\ SubSeq(lastCh.response, 1, 16) = BigEndian8(5) \o Repeat(Byte(255), 8)
        /\ \A i \in 17 .. Len(lastCh.response) : Len(lastCh.response[i]) > 1

C20_Witness ==
    /\ lastCh.op = "MakeResponse"
    /\ lastCh.input # insts[lastCh.slot].challengeData
    /\ Len(lastCh.response) > Size(HashNew("BLAKE3"))

\* C33: GetChallenge, MakeResponse and CheckResponse leave every field of a
\* Challenge as NewChallenge set it; GetChallenge returns the challenge data
\* as constructed, and CheckResponse answers as the instance just constructed
\* would, whatever was made or checked before.
C33_ChallengeImmutable ==
    /\ insts = built
    /\ lastCh.op = "GetChallenge" => lastCh.response = built[lastCh.slot].challengeData
    /\ lastCh.op = "CheckResponse" =>
           lastCh.err = CheckResponse(built[lastCh.slot], lastCh.input)

\* CheckResponse has returned on an instance that made a response, to the
\* challenge of the other instance, before.
C33_Witness ==
    /\ lastCh.op = "CheckResponse"
    /\ \E x \in resps :
           /\ x.by = built[lastCh.slot]
           /\ x.challenge # built[lastCh.slot].challengeData

-----------------------------------------------------------------------------
(* Claims about the value hasher. *)

\* Every field sequence the hasher can have been fed.
AllFields == HasherFields \cup {Bytes(str) : str \in HasherStrings}
FieldSeqs == UNION {[1 .. n -> AllFields] : n \in 0 .. MaxFields}

\* A new hasher after Add of fields 1..n, in order.
RECURSIVE AddAll(_, _)
AddAll(fields, n) ==
    IF n = 0 THEN NewValueHasher(HashNew("BLAKE3"))
    ELSE ValueHasherAdd(AddAll(fields, n - 1), fields[n])

\* Each of these sequences with the stream a hasher fed with it gives to the
\* hash, and with its Sum.
HasherOf ==
    {[fields |-> s, stream |-> AddAll(s, Len(s)).hash.buf,
      sum |-> ValueHasherSum(AddAll(s, Len(s)))] : s \in FieldSeqs}

\* C21: the framing is unambiguous: the stream fed to the hash, and so the
\* Sum, of the hasher is that of a field sequence exactly when that sequence
\* is the one it was fed (whatever the order, the split or the number of
\* fields of the other), AddString counting as Add of the string's bytes.
C21_FramingInjective ==
    LET stream == hasher.hash.buf
        sum == ValueHasherSum(hasher)
    IN  \A x \in HasherOf :
            /\ (x.stream = stream) <=> (x.fields = added)
            /\ (x.sum = sum) <=> (x.fields = added)
            /\ (x.fields = added /\ lastSum # <<>>) => lastSum = x.sum

\* The hasher was fed "ab" by Add and "c" by AddString and summed, and
\* another sequence, "a" and "bc", has the same bytes split differently.
C21_Witness ==
    /\ added = <<Bytes(<<97, 98>>), Bytes(<<99>>)>>
    /\ lastSum # <<>>
    /\ <<Bytes(<<97>>), Bytes(<<98, 99>>)>> \in FieldSeqs

\* C22: Sum returns the 16-byte finisher and then the digest: the number of
\* Add and AddString calls (empty fields counted) in 8 bytes big endian,
\* eight 0xFF bytes, and the digest of the field stream alone.
C22_SumIsFinisherAndDigest ==
    lastSum # <<>> =>
        /\ Len(lastSum) = 16 + Size(HashNew("BLAKE3"))
        /\ SubSeq(lastSum, 1, 8) = BigEndian8(Len(added))
        /\ SubSeq(lastSum, 9, 16) = [k \in 1 .. 8 |-> Byte(255)]
        /\ SubSeq(lastSum, 17, Len(lastSum))
               = Sum(Write(HashNew("BLAKE3"), ValueHasherStream(added, Len(added))))

\* Sum was called after three fields, an empty one among them.
C22_Witness ==
    /\ lastSum # <<>>
    /\ Len(added) = 3
    /\ \E k \in 1 .. 3 : added[k] = <<>>
    /\ \E k \in 1 .. 3 : added[k] # <<>>

-----------------------------------------------------------------------------
(* Claims about the constructors. *)

Constructors ==
    {"NewChallenge", "NewAuthCodeHandler", "NewKeyMaker", "NewKeyExchange", "NewKeyPair"}

\* C25: a constructor called with a type whose IsValid() is false returns
\* nil and an error, having performed no cryptographic operation; called with
\* a type whose IsValid() is true it returns an object and a nil error.
C25_ConstructorsRejectInvalidTypes ==
    lastNew.ctor \in Constructors =>
        /\ ~lastNew.valid <=> ~lastNew.err.nil
        /\ ~lastNew.valid <=> lastNew.obj = <<>>
        /\ ~lastNew.valid => lastNew.ops = <<>>

\* NewKeyPair has been called with a type that is not supported.
C25_Witness ==
    /\ lastNew.ctor = "NewKeyPair"
    /\ ~lastNew.valid
    /\ lastNew.obj = <<>>

\* C26: NewSecret(n) returns max(n, 32) bytes, and the secret of a new
\* Challenge instance, which GetChallenge returns, has at least 32 bytes.
C26_SecretAtLeast32 ==
    /\ lastNew.ctor = "NewSecret" =>
           Len(lastNew.obj[1]) = (IF lastNew.n > 32 THEN lastNew.n ELSE 32)
    /\ (lastNew.ctor = "NewChallenge" /\ lastNew.obj # <<>>) =>
           /\ Len(lastNew.obj[1].challengeData) >= 32
           /\ GetChallenge(lastNew.obj[1]) = lastNew.obj[1].challengeData

\* NewSecret has been asked for 31 bytes.
C26_Witness ==
    /\ lastNew.ctor = "NewSecret"
    /\ lastNew.n = 31
    /\ Len(lastNew.obj[1]) = 32

-----------------------------------------------------------------------------
(* Claims about the key exchange and the key maker. *)

\* C23: a MakeKeys call made after a MakeKeys call on the instance has
\* returned a KeyMaker returns ErrCannotReuse and no KeyMaker, whatever its
\* arguments.
C23_MakeKeysSingleUse ==
    (lastKex.op = "MakeKeys" /\ lastKex.after) =>
        /\ ErrorsIs(lastKex.err, ErrCannotReuse)
        /\ lastKex.obj = <<>>

\* A second MakeKeys call with valid arguments, made after the first has
\* returned, has been refused.
C23_Witness ==
    /\ lastKex.op = "MakeKeys"
    /\ lastKex.after
    /\ lastKex.exchMsg = X25519Public(2)
    /\ lastKex.keyMakerType = KeyMakerTypeBlake3
    /\ ErrorsIs(lastKex.err, ErrCannotReuse)

\* C24: the key DeriveKey returns is that of another (keyContext, keyParty)
\* pair, for the same KeyMaker and length, only when the pair is the same.
C24_DerivationInjective ==
    (lastKex.op = "DeriveKey" /\ lastKex.err.nil) =>
        \A c \in KeyContexts, q \in KeyParties :
            (DeriveKey(lastKex.obj[1], c, q, lastKex.n).key = lastKex.key)
                <=> (c = lastKex.keyContext /\ q = lastKex.keyParty)

\* A MakeKeys call has returned an error other than ErrCannotReuse.
MakeKeysFailed ==
    /\ lastKex.op = "MakeKeys"
    /\ ~lastKex.err.nil
    /\ ~ErrorsIs(lastKex.err, ErrCannotReuse)

\* C36: a MakeKeys call that fails with an error other than ErrCannotReuse
\* does not set the used flag (the flag is set exactly when a call has
\* returned a KeyMaker), and as long as no call has succeeded a MakeKeys call
\* with valid arguments on the instance succeeds.
C36_FailedMakeKeysKeepsUnused ==
    MakeKeysFailed =>
        /\ kex.used <=> returned
        /\ ~returned =>
               LET later == X25519MakeKeys(kex, X25519Public(2), KeyMakerTypeBlake3)
               IN  later.err.nil /\ later.obj # <<>>

\* MakeKeys has failed on an invalid key maker type, with a valid public key,
\* and no call has succeeded yet.
C36_Witness ==
    /\ MakeKeysFailed
    /\ ~returned
    /\ lastKex.exchMsg = X25519Public(2)
    /\ lastKex.keyMakerType = <<>>

-----------------------------------------------------------------------------
(* Claims about key pairs and stored keys. *)

\* C27: Sign on a pair made by ToPublic, loaded from a public StoredKey or
\* burned returns ErrNoPrivateKey; Verify on a burned pair returns
\* ErrNoPublicKey; a pair made by ToPublic never has a private key.
C27_KeyPairMisuseErrors ==
    /\ (lastKp.op = "Sign" /\ lastKp.origin \in {"ToPublic", "LoadPublic", "Burn"}) =>
           ErrorsIs(lastKp.err, ErrNoPrivateKey)
    /\ (lastKp.op = "Verify" /\ lastKp.origin = "Burn") =>
           ErrorsIs(lastKp.err, ErrNoPublicKey)
    /\ \A k \in KpSlots :
           (origin[k] = "ToPublic" /\ kps[k] # <<>>) => ~EdkpHasPrivate(kps[k][1])
    /\ lastKp.op = "ToPublic" => ~lastKp.has

\* Sign has been refused on the pair ToPublic made of a pair that has a
\* private key.
C27_Witness ==
    /\ lastKp.op = "Sign"
    /\ lastKp.slot = "pub"
    /\ lastKp.origin = "ToPublic"
    /\ origin["kp"] = "New"
    /\ EdkpHasPrivate(kps["kp"][1])
    /\ ErrorsIs(lastKp.err, ErrNoPrivateKey)

\* C28: the type FindStoredKeyType returns is one of the acceptable types,
\* and LoadKeyPair loads every stored key whose Type is "Ed25519" in any
\* case.
C28_LoadIsCaseInsensitive ==
    (lastKp.op = "LoadKeyPair" /\ ~lastKp.panics
        /\ EqualFold(lastKp.type, KeyPairTypeEd25519)) =>
        /\ lastKp.err.nil
        /\ FindStoredKeyType([Type |-> lastKp.type], <<KeyPairTypeEd25519>>).found
               = KeyPairTypeEd25519

\* pub is a pair ToPublic returned, made of a pair that had a public key, and
\* has not been burned itself.
PubIsCopy ==
    /\ kps["pub"] # <<>>
    /\ origin["pub"] = "ToPublic"
    /\ kps["pub"][1].pubKey # 0

\* C38: the pair ToPublic returned keeps its public key bytes when the pair
\* it was made of is burned: it holds a public key of a generated pair, and
\* its Verify accepts what that pair signed before the Burn.
C38_ToPublicIsIndependentCopy ==
    PubIsCopy =>
        /\ mem[kps["pub"][1].pubKey] \in {Ed25519Public(r) : r \in Seeds}
        /\ signed # <<>> =>
               EdkpVerify(kps["pub"][1], signed[1].data, signed[1].signature, mem).nil

====
